---- MODULE Spec2Model ----
(***************************************************************************)
(* Model of the video-script generator (src/lib/generate-script.ts) and of *)
(* the page that drives it.  A JavaScript string is a sequence of          *)
(* one-character strings; every regular expression and string method the   *)
(* code uses is an operator that computes what the method computes.        *)
(***************************************************************************)
EXTENDS Integers, Sequences, FiniteSets, TLC

VARIABLES
  form,       \* useState<ScriptForm>: the six fields being edited
  script,     \* useState<VideoScript>: the plan on display
  copyState,  \* useState<"idle" | "copied">
  search,     \* window.location.search, the query of the address bar
  writes,     \* the texts of the clipboard writes that have not settled yet
  timers,     \* the milliseconds left on each pending setTimeout callback
  clipboard,  \* the text the clipboard holds
  opened,     \* the query the page was opened on
  request,    \* the argument of the latest generateVideoScript call
  result      \* what that call returned, or that it threw

vars == <<form, script, copyState, search, writes, timers, clipboard, opened, request, result>>

(***************************************************************************)
(* Characters and the JavaScript string methods the code calls             *)
(***************************************************************************)
UpperLetters == <<"A","B","C","D","E","F","G","H","I","J","K","L","M","N","O","P","Q","R","S",
                  "T","U","V","W","X","Y","Z">>

LowerLetters == <<"a","b","c","d","e","f","g","h","i","j","k","l","m","n","o","p","q","r","s",
                  "t","u","v","w","x","y","z">>

DigitChars == <<"0","1","2","3","4","5","6","7","8","9">>

\* The three characters U+00E2 U+20AC U+201D that stand between the topic and
\* the tone in the title's template literal, one model character each (the
\* module is ASCII).
TitleDash == <<"[U+00E2]", "[U+20AC]", "[U+201D]">>

\* The characters \s and trim() treat as white space (those of the model's alphabet).
Whitespace == {" ", "\t", "\n", "\r"}

Range(s) == {s[i] : i \in 1..Len(s)}

UpperSet == Range(UpperLetters)

LowerSet == Range(LowerLetters)

DigitSet == Range(DigitChars)

IsUpper(c) == c \in UpperSet

IsLower(c) == c \in LowerSet

IsDigit(c) == c \in DigitSet

\* \w of a regular expression: the characters \b tells apart from the rest.
WordCharSet == UpperSet \cup LowerSet \cup DigitSet \cup {"_"}

IsWordChar(c) == c \in WordCharSet

LowerOf == [c \in UpperSet |-> LowerLetters[CHOOSE i \in 1..Len(UpperLetters) : UpperLetters[i] = c]]

UpperOf == [c \in LowerSet |-> UpperLetters[CHOOSE i \in 1..Len(LowerLetters) : LowerLetters[i] = c]]

ToLowerChar(c) == IF c \in UpperSet THEN LowerOf[c] ELSE c

ToUpperChar(c) == IF c \in LowerSet THEN UpperOf[c] ELSE c

\* (SubSeq makes the result a tuple whose elements are computed once.)
MapChars(s, F(_)) == SubSeq([i \in 1..Len(s) |-> F(s[i])], 1, Len(s))

toLowerCase(s) == MapChars(s, ToLowerChar)

SetMin(S) == CHOOSE x \in S : \A y \in S : x <= y

SetMax(S) == CHOOSE x \in S : \A y \in S : x >= y

Min2(a, b) == IF a <= b THEN a ELSE b

Max2(a, b) == IF a >= b THEN a ELSE b

\* String.prototype.trim
trim(s) ==
  LET keep == {i \in 1..Len(s) : s[i] \notin Whitespace}
  IN  IF keep = {} THEN <<>> ELSE SubSeq(s, SetMin(keep), SetMax(keep))

\* s.replace(/c/g, "") for the characters of Drop
RemoveChars(s, Drop) == SelectSeq(s, LAMBDA c : c \notin Drop)

\* s.includes(t)
includes(s, t) ==
  \E i \in 1..(Len(s) - Len(t) + 1) : \A j \in 1..Len(t) : s[i + j - 1] = t[j]

\* The first index at or after i whose character is outside Sep (Len(s)+1 if none).
SkipRun(s, Sep, i) ==
  LET rest == {j \in i..Len(s) : s[j] \notin Sep}
  IN  IF rest = {} THEN Len(s) + 1 ELSE SetMin(rest)

\* The first index at or after i whose character is in Sep (Len(s)+1 if none).
FindNext(s, Sep, i) ==
  LET rest == {j \in i..Len(s) : s[j] \in Sep}
  IN  IF rest = {} THEN Len(s) + 1 ELSE SetMin(rest)

\* The pieces of s from index i on, i being the start of a piece.
RECURSIVE SplitFrom(_, _, _)
SplitFrom(s, Sep, i) ==
  LET end == FindNext(s, Sep, i)
  IN  IF end > Len(s) THEN <<SubSeq(s, i, Len(s))>>
      ELSE <<SubSeq(s, i, end - 1)>> \o SplitFrom(s, Sep, SkipRun(s, Sep, end))

\* s.split(/[Sep]+/): the pieces between the runs of separators, the empty
\* pieces at either end included.
split(s, Sep) == SplitFrom(s, Sep, 1)

\* array.filter(Boolean) on strings: drops the empty ones
filterBoolean(ss) == SelectSeq(ss, LAMBDA x : x # <<>>)

MapSeq(ss, F(_)) == SubSeq([i \in 1..Len(ss) |-> F(ss[i])], 1, Len(ss))

RECURSIVE Flatten(_)
Flatten(sss) ==
  IF Len(sss) = 0 THEN <<>>
  ELSE IF Len(sss) = 1 THEN sss[1]
  ELSE LET m == Len(sss) \div 2
       IN  Flatten(SubSeq(sss, 1, m)) \o Flatten(SubSeq(sss, m + 1, Len(sss)))

RECURSIVE join(_, _)
join(ss, sep) ==
  IF ss = <<>> THEN <<>>
  ELSE IF Len(ss) = 1 THEN ss[1]
  ELSE ss[1] \o sep \o join(Tail(ss), sep)

slice(ss, n) == SubSeq(ss, 1, Min2(n, Len(ss)))

RECURSIVE NumDigits(_)
NumDigits(n) ==
  IF n < 10 THEN <<DigitChars[n + 1]>> ELSE Append(NumDigits(n \div 10), DigitChars[(n % 10) + 1])

\* `${n}` of a non-negative integer: its decimal digits
NumToString(n) == NumDigits(n)

\* undefined, where a string was expected
Undefined == <<"undefined">>

\* `${v}` in a template literal
Interp(v) == IF v = Undefined THEN <<"u","n","d","e","f","i","n","e","d">> ELSE v

\* The property names every object literal inherits from Object.prototype.
ObjectPrototypeKeys ==
  { <<"c","o","n","s","t","r","u","c","t","o","r">>, <<"t","o","S","t","r","i","n","g">>, <<"v",
                                                                                            "a",
                                                                                            "l",
                                                                                            "u",
                                                                                            "e",
                                                                                            "O",
                                                                                            "f">>, <<
                                                                                                     "h",
                                                                                                     "a",
                                                                                                     "s",
                                                                                                     "O",
                                                                                                     "w",
                                                                                                     "n",
                                                                                                     "P",
                                                                                                     "r",
                                                                                                     "o",
                                                                                                     "p",
                                                                                                     "e",
                                                                                                     "r",
                                                                                                     "t",
                                                                                                     "y">>, <<
                                                                                                              "_",
                                                                                                              "_",
                                                                                                              "p",
                                                                                                              "r",
                                                                                                              "o",
                                                                                                              "t",
                                                                                                              "o",
                                                                                                              "_",
                                                                                                              "_">> }

\* table[key] of an object literal: its own property; else, for a name that
\* Object.prototype defines, the inherited function or object (which has none
\* of the table's properties); else undefined.
Lookup(table, key) ==
  IF key \in DOMAIN table THEN [kind |-> "own", value |-> table[key]]
  ELSE IF key \in ObjectPrototypeKeys THEN [kind |-> "inherited", value |-> Undefined]
  ELSE [kind |-> "undefined", value |-> Undefined]

\* a ?? b: b only when a is undefined (or null)
Nullish(a, b) == IF a.kind = "undefined" THEN [kind |-> "own", value |-> b] ELSE a

\* profile.field: undefined on an inherited member, which has no such property
Prop(profile, field) == IF profile.kind = "own" THEN profile.value[field] ELSE Undefined

(***************************************************************************)
(* The lookup tables                                                       *)
(***************************************************************************)
LANGUAGE_LABELS ==
  <<"e","n">> :> <<"E","n","g","l","i","s","h">> @@
  <<"e","s">> :> <<"S","p","a","n","i","s","h">> @@
  <<"f","r">> :> <<"F","r","e","n","c","h">> @@
  <<"d","e">> :> <<"G","e","r","m","a","n">> @@
  <<"p","t">> :> <<"P","o","r","t","u","g","u","e","s","e">> @@
  <<"i","t">> :> <<"I","t","a","l","i","a","n">> @@
  <<"j","a">> :> <<"J","a","p","a","n","e","s","e">> @@
  <<"z","h">> :> <<"M","a","n","d","a","r","i","n"," ","C","h","i","n","e","s","e">>

MOOD_PROFILES ==
  <<"c","a","l","m">> :>
    [ pacing |-> <<"e","v","e","n",","," ","t","h","o","u","g","h","t","f","u","l"," ","c","a",
                   "d","e","n","c","e">>,
      audio |-> <<"S","o","f","t"," ","a","m","b","i","e","n","t"," ","p","i","a","n","o"," ",
                  "b","e","d"," ","w","i","t","h"," ","a","i","r","y"," ","p",
                  "a","d","s">>,
      colorPalette |-> << <<"#","E","6","F","0","F","F">>, <<"#","C","9","D","B","F","4">>, <<
                                                                                              "#",
                                                                                              "F",
                                                                                              "4",
                                                                                              "F",
                                                                                              "6",
                                                                                              "F",
                                                                                              "B">> >>,
      motion |-> <<"g","e","n","t","l","e"," ","p","a","r","a","l","l","a","x"," ","m","o","v",
                   "e","s"," ","a","n","d"," ","s","l","o","w"," ","d","o","l",
                   "l","y"," ","p","u","s","h","e","s">>,
      lighting |-> <<"d","i","f","f","u","s","e","d"," ","l","i","g","h","t"," ","w","i","t",
                     "h"," ","c","o","o","l"," ","h","i","g","h","l","i","g",
                     "h","t","s">>,
      voiceTone |-> <<"w","a","r","m",","," ","r","e","a","s","s","u","r","i","n","g"," ","n",
                      "a","r","r","a","t","i","o","n">>,
      hookVerb |-> <<"I","n","v","i","t","e">> ] @@
  <<"e","n","e","r","g","e","t","i","c">> :>
    [ pacing |-> <<"s","n","a","p","p","y"," ","w","i","t","h"," ","d","y","n","a","m","i","c",
                   " ","e","m","p","h","a","s","i","s">>,
      audio |-> <<"D","r","i","v","i","n","g"," ","e","l","e","c","t","r","o","n","i","c"," ",
                  "b","e","a","t"," ","w","i","t","h"," ","r","h","y","t","h",
                  "m","i","c"," ","p","u","l","s","e","s">>,
      colorPalette |-> << <<"#","F","F","E","6","A","A">>, <<"#","F","F","8","A","6","5">>, <<
                                                                                              "#",
                                                                                              "3",
                                                                                              "D",
                                                                                              "5",
                                                                                              "A",
                                                                                              "F",
                                                                                              "E">> >>,
      motion |-> <<"b","o","l","d"," ","c","a","m","e","r","a"," ","s","w","e","e","p","s"," ",
                   "a","n","d"," ","q","u","i","c","k"," ","p","u","n","c","h",
                   "-","i","n","s">>,
      lighting |-> <<"h","i","g","h"," ","c","o","n","t","r","a","s","t"," ","w","i","t","h",
                     " ","s","a","t","u","r","a","t","e","d"," ","a","c","c",
                     "e","n","t","s">>,
      voiceTone |-> <<"c","o","n","f","i","d","e","n","t"," ","a","n","d"," ","e","n","t","h",
                      "u","s","i","a","s","t","i","c">>,
      hookVerb |-> <<"E","n","e","r","g","i","z","e">> ] @@
  <<"i","n","s","p","i","r","a","t","i","o","n","a","l">> :>
    [ pacing |-> <<"u","p","l","i","f","t","i","n","g",","," ","g","r","a","d","u","a","l","l",
                   "y"," ","b","u","i","l","d","i","n","g"," ","m","o","m","e",
                   "n","t","u","m">>,
      audio |-> <<"C","i","n","e","m","a","t","i","c"," ","o","r","c","h","e","s","t","r","a",
                  " ","w","i","t","h"," ","l","i","g","h","t"," ","p","e","r",
                  "c","u","s","s","i","o","n">>,
      colorPalette |-> << <<"#","F","F","F","3","E","0">>, <<"#","F","8","B","B","D","0">>, <<
                                                                                              "#",
                                                                                              "B",
                                                                                              "3",
                                                                                              "9",
                                                                                              "D",
                                                                                              "D",
                                                                                              "B">> >>,
      motion |-> <<"s","l","o","w"," ","r","e","v","e","a","l","s"," ","w","i","t","h"," ","l",
                   "e","n","s"," ","f","l","a","r","e"," ","a","c","c","e","n",
                   "t","s">>,
      lighting |-> <<"w","a","r","m"," ","b","a","c","k","l","i","g","h","t","i","n","g"," ",
                     "w","i","t","h"," ","s","o","f","t"," ","b","l","o","o",
                     "m">>,
      voiceTone |-> <<"a","s","p","i","r","a","t","i","o","n","a","l"," ","a","n","d"," ","o",
                      "p","t","i","m","i","s","t","i","c">>,
      hookVerb |-> <<"I","n","s","p","i","r","e">> ]

DEFAULT_MOOD_PROFILE == MOOD_PROFILES[<<"c","a","l","m">>]

ASPECT_GUIDANCE ==
  <<"1","6",":","9">> :>
    [ framing |->
        <<"L","a","n","d","s","c","a","p","e"," ","c","o","m","p","o","s","i","t","i","o","n",
          "s"," ","w","i","t","h"," ","b","r","e","a","t","h","a","b","l","e"," ","n",
          "e","g","a","t","i","v","e"," ","s","p","a","c","e"," ","f","o","r"," ","l",
          "o","w","e","r","-","t","h","i","r","d"," ","o","v","e","r","l","a","y","s",
          ".">>,
      safeZone |->
        <<"K","e","e","p"," ","e","s","s","e","n","t","i","a","l"," ","g","r","a","p","h","i",
          "c","s"," ","i","n","s","i","d","e"," ","t","h","e"," ","c","e","n","t","r",
          "a","l"," ","8","0","%"," ","t","o"," ","p","r","o","t","e","c","t"," ","a",
          "g","a","i","n","s","t"," ","c","r","o","p","p","i","n","g"," ","o","n"," ",
          "s","o","c","i","a","l"," ","p","l","a","t","f","o","r","m","s",".">> ] @@
  <<"9",":","1","6">> :>
    [ framing |->
        <<"V","e","r","t","i","c","a","l"," ","s","t","o","r","y","t","e","l","l","i","n","g",
          " ","w","i","t","h"," ","s","t","a","c","k","e","d"," ","l","a","y","e","r",
          "s"," ","a","n","d"," ","m","o","t","i","o","n"," ","f","r","o","m"," ","b",
          "o","t","t","o","m"," ","t","o"," ","t","o","p",".">>,
      safeZone |->
        <<"C","o","n","s","t","r","a","i","n"," ","t","e","x","t"," ","t","o"," ","t","h","e",
          " ","m","i","d","d","l","e"," ","6","0","%"," ","t","o"," ","a","v","o","i",
          "d"," ","U","I"," ","o","v","e","r","l","a","y","s"," ","o","n"," ","s","h",
          "o","r","t","-","f","o","r","m"," ","p","l","a","t","f","o","r","m","s",".">> ] @@
  <<"1",":","1">> :>
    [ framing |-> <<"C","e","n","t","e","r","e","d"," ","c","o","m","p","o","s","i","t","i","o",
                    "n","s"," ","w","i","t","h"," ","s","y","m","m","e","t",
                    "r","i","c","a","l"," ","g","r","a","p","h","i","c"," ",
                    "a","r","r","a","n","g","e","m","e","n","t","s",".">>,
      safeZone |->
        <<"U","s","e"," ","a"," ","c","i","r","c","u","l","a","r"," ","s","a","f","e"," ","z",
          "o","n","e"," ","t","o"," ","k","e","e","p"," ","f","a","c","e","s"," ","a",
          "n","d"," ","t","i","t","l","e","s"," ","f","r","o","m"," ","g","e","t","t",
          "i","n","g"," ","c","l","i","p","p","e","d",".">> ]

DEFAULT_ASPECT_GUIDANCE == ASPECT_GUIDANCE[<<"1","6",":","9">>]

STOP_WORDS ==
  { <<"a">>, <<"a","n">>, <<"a","n","d">>, <<"a","r","e">>, <<"a","s">>, <<"a","t">>, <<"b",
                                                                                        "e">>, <<
                                                                                                 "b",
                                                                                                 "y">>, <<
                                                                                                          "f",
                                                                                                          "o",
                                                                                                          "r">>, <<
                                                                                                                   "f",
                                                                                                                   "r",
                                                                                                                   "o",
                                                                                                                   "m">>,
    <<"h","o","w">>, <<"i","n">>, <<"i","n","t","o">>, <<"i","s">>, <<"i","t">>, <<"o","f">>, <<
                                                                                                "o",
                                                                                                "n">>, <<
                                                                                                         "o",
                                                                                                         "r">>, <<
                                                                                                                  "t",
                                                                                                                  "h",
                                                                                                                  "a",
                                                                                                                  "t">>, <<
                                                                                                                           "t",
                                                                                                                           "h",
                                                                                                                           "e">>,
    <<"t","o">>, <<"w","i","t","h">>, <<"w","h","a","t">>, <<"w","h","y">>, <<"w","h","e","n">>, <<
                                                                                                   "d",
                                                                                                   "o",
                                                                                                   "e",
                                                                                                   "s">>, <<
                                                                                                            "d",
                                                                                                            "o">>, <<
                                                                                                                     "c",
                                                                                                                     "a",
                                                                                                                     "n">>, <<
                                                                                                                              "l",
                                                                                                                              "i",
                                                                                                                              "k",
                                                                                                                              "e">>,
    <<"j","u","s","t">> }

(***************************************************************************)
(* Story segmentation                                                      *)
(***************************************************************************)
SentenceEnd == {".", "!", "?"}

\* paragraph.split(/(?<=[.!?])\s+(?=[A-Z])/): a cut is a whole run of white
\* space that directly follows a sentence mark and directly precedes A-Z.
IsCut(s, i) ==
  /\ i > 1
  /\ s[i - 1] \in SentenceEnd
  /\ s[i] \in Whitespace
  /\ SkipRun(s, Whitespace, i) <= Len(s)
  /\ IsUpper(s[SkipRun(s, Whitespace, i)])

\* The sentences of s from index i on, i being the start of a sentence.
RECURSIVE SentencesFrom(_, _)
SentencesFrom(s, i) ==
  LET cuts == {c \in i..Len(s) : IsCut(s, c)}
  IN  IF cuts = {} THEN <<SubSeq(s, i, Len(s))>>
      ELSE <<SubSeq(s, i, SetMin(cuts) - 1)>>
           \o SentencesFrom(s, SkipRun(s, Whitespace, SetMin(cuts)))

splitSentences(paragraph) == SentencesFrom(paragraph, 1)

DefaultBeats ==
  << <<"A","r","t","i","f","i","c","i","a","l"," ","i","n","t","e","l","l","i","g","e","n","c",
       "e"," ","s","t","u","d","i","e","s"," ","p","a","t","t","e","r","n","s"," ","i","n",
       " ","d","a","t","a"," ","t","o"," ","l","e","a","r","n"," ","h","o","w"," ","t","h",
       "e"," ","w","o","r","l","d"," ","w","o","r","k","s",".">>,
     <<"B","y"," ","w","a","t","c","h","i","n","g"," ","t","h","o","u","s","a","n","d","s"," ",
       "o","f"," ","e","x","a","m","p","l","e","s",","," ","i","t"," ","r","e","c","o","g",
       "n","i","z","e","s"," ","r","e","l","a","t","i","o","n","s","h","i","p","s"," ","a",
       "n","d"," ","m","a","k","e","s"," ","p","r","e","d","i","c","t","i","o","n","s",
       ".">>,
     <<"W","i","t","h"," ","e","v","e","r","y"," ","i","t","e","r","a","t","i","o","n",","," ",
       "t","h","e"," ","s","y","s","t","e","m"," ","f","i","n","e","-","t","u","n","e","s",
       " ","i","t","s","e","l","f",","," ","i","m","p","r","o","v","i","n","g"," ","j","u",
       "s","t"," ","l","i","k","e"," ","h","u","m","a","n"," ","l","e","a","r","n","i","n",
       "g",".">> >>

storyLines(story) == filterBoolean(MapSeq(split(story, {"\n"}), trim))

\* parseStoryBeats with a fallback narrative one sentence short
parseStoryBeats_ShortFallback(story) ==
  LET lines == storyLines(story)
  IN  IF Len(lines) = 0 THEN SubSeq(DefaultBeats, 1, 2)
      ELSE Flatten(MapSeq(lines,
             LAMBDA paragraph : filterBoolean(MapSeq(splitSentences(paragraph), trim))))

parseStoryBeats(story) ==
  LET lines == storyLines(story)
  IN  IF Len(lines) = 0 THEN DefaultBeats
      ELSE Flatten(MapSeq(lines,
             LAMBDA paragraph : filterBoolean(MapSeq(splitSentences(paragraph), trim))))

(***************************************************************************)
(* Keyword derivation                                                      *)
(***************************************************************************)
\* Array.from(new Set(ss)): the first occurrence of every value, in order
RECURSIVE Dedupe(_)
Dedupe(ss) ==
  IF ss = <<>> THEN <<>>
  ELSE LET front == Dedupe(SubSeq(ss, 1, Len(ss) - 1))
           last == ss[Len(ss)]
       IN  IF \E i \in 1..Len(front) : front[i] = last THEN front ELSE Append(front, last)

\* s.replace(/[^a-z0-9\s]/g, " ")
LowerAlnumOrSpace == LowerSet \cup DigitSet \cup Whitespace

blankNonWord(s) == MapChars(s, LAMBDA c : IF c \in LowerAlnumOrSpace THEN c ELSE " ")

Occurrences(words, w) == Cardinality({i \in 1..Len(words) : words[i] = w})

\* entries.sort((a, b) => b[1] - a[1]) of the distinct words: by descending
\* count, equal counts in their first-encountered order (the sort is stable).
RECURSIVE SortByCount(_, _)
SortByCount(entries, words) ==
  IF entries = <<>> THEN <<>>
  ELSE LET best == SetMax({Occurrences(words, entries[i]) : i \in 1..Len(entries)})
           pick == SetMin({i \in 1..Len(entries) : Occurrences(words, entries[i]) = best})
       IN  <<entries[pick]>> \o
           SortByCount(SubSeq(entries, 1, pick - 1) \o SubSeq(entries, pick + 1, Len(entries)),
                       words)

MaxDerived == 8

MinWordLen == 2

\* The same, with the stop words left in.
extractKeywordsFromStory_KeepStopWords(story) ==
  LET words == SelectSeq(split(blankNonWord(toLowerCase(story)), Whitespace),
                         LAMBDA word : Len(word) > MinWordLen)
  IN  slice(SortByCount(Dedupe(words), words), MaxDerived)

extractKeywordsFromStory(story) ==
  LET words == SelectSeq(split(blankNonWord(toLowerCase(story)), Whitespace),
                         LAMBDA word : Len(word) > MinWordLen /\ word \notin STOP_WORDS)
  IN  slice(SortByCount(Dedupe(words), words), MaxDerived)

\* keyword.replace(/\b(ai)\b/gi, "AI"): "ai" in any case, with no word
\* character directly before or after it
IsAiAt(s, i) ==
  /\ i >= 1
  /\ i + 1 <= Len(s)
  /\ ToLowerChar(s[i]) = "a"
  /\ ToLowerChar(s[i + 1]) = "i"

IsAiWordAt(s, i) ==
  /\ IsAiAt(s, i)
  /\ (i = 1 \/ ~IsWordChar(s[i - 1]))
  /\ (i + 1 = Len(s) \/ ~IsWordChar(s[i + 2]))

\* replaceAiWord without the \b anchors
replaceAiWord_Anywhere(s) ==
  IF Len(s) = 0 THEN <<>>
  ELSE [k \in 1..Len(s) |->
          IF IsAiAt(s, k) \/ IsAiAt(s, k - 1) THEN ToUpperChar(s[k]) ELSE s[k]]

replaceAiWord(s) ==
  IF Len(s) = 0 THEN <<>>
  ELSE [k \in 1..Len(s) |->
          IF IsAiWordAt(s, k) \/ IsAiWordAt(s, k - 1) THEN ToUpperChar(s[k]) ELSE s[k]]

providedKeywords(rawKeywords) ==
  MapSeq(filterBoolean(MapSeq(split(rawKeywords, {",", ";", "\n"}), trim)), toLowerCase)

\* deriveKeywords without the Set
deriveKeywords_NoSet(topic, story, rawKeywords) ==
  LET fallbackKeywords == extractKeywordsFromStory(topic \o <<"."," ">> \o story)
  IN  MapSeq(providedKeywords(rawKeywords) \o fallbackKeywords, replaceAiWord)

deriveKeywords(topic, story, rawKeywords) ==
  LET fallbackKeywords == extractKeywordsFromStory(topic \o <<"."," ">> \o story)
  IN  MapSeq(Dedupe(providedKeywords(rawKeywords) \o fallbackKeywords), replaceAiWord)

(***************************************************************************)
(* Scene planning                                                          *)
(***************************************************************************)
\* The same, matching the keyword as it is written against the voiceover as
\* it is written.
selectKeywordForScene_CaseSensitive(voiceover, keywords, index) ==
  LET hits == {i \in 1..Len(keywords) : includes(voiceover, keywords[i])}
  IN  IF hits # {} /\ keywords[SetMin(hits)] # <<>> THEN keywords[SetMin(hits)]
      ELSE IF Len(keywords) = 0 THEN <<"i","n","s","i","g","h","t">>
      ELSE keywords[(index % Len(keywords)) + 1]

selectKeywordForScene(voiceover, keywords, index) ==
  LET lowerVoiceover == toLowerCase(voiceover)
      hits == {i \in 1..Len(keywords) : includes(lowerVoiceover, toLowerCase(keywords[i]))}
  IN  IF hits # {} /\ keywords[SetMin(hits)] # <<>> THEN keywords[SetMin(hits)]
      ELSE IF Len(keywords) = 0 THEN <<"i","n","s","i","g","h","t">>
      ELSE keywords[(index % Len(keywords)) + 1]

capitalize(value) ==
  IF value = Undefined \/ value = <<>> THEN value
  ELSE <<ToUpperChar(value[1])>> \o SubSeq(value, 2, Len(value))

\* s.replace(/AI/gi, "AI"): every "ai", in any case and anywhere, is uppercased
replaceAi(s) ==
  IF Len(s) = 0 THEN <<>>
  ELSE [k \in 1..Len(s) |->
          IF IsAiAt(s, k) \/ IsAiAt(s, k - 1) THEN ToUpperChar(s[k]) ELSE s[k]]

\* s.replace(/[^a-zA-Z0-9\s]/g, "")
AlnumOrSpace == UpperSet \cup LowerSet \cup DigitSet \cup Whitespace

stripNonAlnum(s) == SelectSeq(s, LAMBDA c : c \in AlnumOrSpace)

MaxOverlayWords == 6

createOverlay(voiceover, keyword) ==
  LET condensed ==
        join(slice(SelectSeq(split(stripNonAlnum(replaceAi(voiceover)), Whitespace),
                             LAMBDA word : Len(word) > MinWordLen),
                   MaxOverlayWords),
             <<" ">>)
  IN  IF condensed # <<>> THEN capitalize(condensed)
      ELSE <<"K","e","y"," ","i","d","e","a",":"," ">> \o Interp(capitalize(keyword))

\* What a visual direction is when its evaluation reads an element of
\* moodProfile.colorPalette and there is no colorPalette: the read throws.
TypeError == <<"TypeError">>

\* createVisualDirection with the learn/training rule tested first
createVisualDirection_LearnFirst(voiceover, keyword, moodProfile, aspectProfile) ==
  LET lower == toLowerCase(voiceover)
  IN  IF includes(lower, <<"l","e","a","r","n">>) \/ includes(lower, <<"t","r","a","i","n","i",
                                                                       "n",
                                                                       "g">>)
      THEN <<"I","l","l","u","s","t","r","a","t","e"," ","a","n"," ","A","I"," ","t","r","a",
             "i","n","i","n","g"," ","l","o","o","p"," ","w","i","t","h"," ","l","a",
             "y","e","r","e","d"," ","a","n","i","m","a","t","i","o","n","s"," ","t",
             "h","a","t"," ","p","r","o","g","r","e","s","s","i","v","e","l","y"," ",
             "r","e","f","i","n","e",","," ","p","a","i","r","e","d"," ","w","i","t",
             "h"," ">>
           \o Interp(Prop(moodProfile, "motion")) \o <<".">>
      ELSE IF includes(lower, <<"d","a","t","a">>) \/ includes(lower, <<"p","a","t","t","e","r",
                                                                        "n",
                                                                        "s">>)
      THEN <<"V","i","s","u","a","l","i","z","e"," ","f","l","o","w","i","n","g"," ","d","a",
             "t","a"," ","p","o","i","n","t","s"," ","m","o","r","p","h","i","n","g",
             " ","i","n","t","o"," ","a"," ","n","e","u","r","a","l"," ","n","e","t",
             "w","o","r","k"," ","m","e","s","h",";"," ">>
           \o Interp(Prop(moodProfile, "motion")) \o <<" ","w","i","t","h"," ">>
           \o Interp(Prop(moodProfile, "lighting")) \o <<".">>
      ELSE IF includes(lower, <<"p","r","e","d","i","c","t">>) \/ includes(lower, <<"o","u","t",
                                                                                    "c",
                                                                                    "o",
                                                                                    "m",
                                                                                    "e",
                                                                                    "s">>)
      THEN <<"S","h","o","w"," ","p","r","e","d","i","c","t","i","v","e"," ","d","a","s","h",
             "b","o","a","r","d","s"," ","c","o","m","i","n","g"," ","t","o"," ","l",
             "i","f","e"," ","w","i","t","h"," ","c","o","n","f","i","d","e","n","t",
             " ","h","i","g","h","l","i","g","h","t","s",";"," ">>
           \o Interp(Prop(aspectProfile, "framing"))
      ELSE IF includes(lower, <<"e","x","p","e","r","i","e","n","c","e">>) \/ includes(lower, <<
                                                                                                "h",
                                                                                                "u",
                                                                                                "m",
                                                                                                "a",
                                                                                                "n",
                                                                                                "s">>)
      THEN <<"C","o","n","t","r","a","s","t"," ","h","u","m","a","n"," ","l","e","a","r","n",
             "i","n","g"," ","a","n","d"," ","m","a","c","h","i","n","e"," ","l","e",
             "a","r","n","i","n","g"," ","t","h","r","o","u","g","h"," ","m","i","r",
             "r","o","r","e","d"," ","c","o","m","p","o","s","i","t","i","o","n","s",
             ","," ","g","e","n","t","l","y"," ","l","i","t"," ","t","o"," ","s","t",
             "a","y"," ">>
           \o Interp(Prop(moodProfile, "lighting")) \o <<".">>
      ELSE IF moodProfile.kind # "own" THEN TypeError
      ELSE <<"C","r","e","a","t","e"," ","c","a","l","m",","," ","a","b","s","t","r","a","c",
             "t"," ","i","m","a","g","e","r","y"," ","a","r","o","u","n","d"," ">> \o keyword \o <<
                                                                                                   ",",
                                                                                                   " ",
                                                                                                   "u",
                                                                                                   "s",
                                                                                                   "i",
                                                                                                   "n",
                                                                                                   "g",
                                                                                                   " ">>
           \o moodProfile.value.colorPalette[1] \o <<" ","a","n","d"," ">>
           \o moodProfile.value.colorPalette[2] \o <<" ","a","c","c","e","n","t","s",".">>

createVisualDirection(voiceover, keyword, moodProfile, aspectProfile) ==
  LET lower == toLowerCase(voiceover)
  IN  IF includes(lower, <<"d","a","t","a">>) \/ includes(lower, <<"p","a","t","t","e","r","n",
                                                                   "s">>)
      THEN <<"V","i","s","u","a","l","i","z","e"," ","f","l","o","w","i","n","g"," ","d","a",
             "t","a"," ","p","o","i","n","t","s"," ","m","o","r","p","h","i","n","g",
             " ","i","n","t","o"," ","a"," ","n","e","u","r","a","l"," ","n","e","t",
             "w","o","r","k"," ","m","e","s","h",";"," ">>
           \o Interp(Prop(moodProfile, "motion")) \o <<" ","w","i","t","h"," ">>
           \o Interp(Prop(moodProfile, "lighting")) \o <<".">>
      ELSE IF includes(lower, <<"p","r","e","d","i","c","t">>) \/ includes(lower, <<"o","u","t",
                                                                                    "c",
                                                                                    "o",
                                                                                    "m",
                                                                                    "e",
                                                                                    "s">>)
      THEN <<"S","h","o","w"," ","p","r","e","d","i","c","t","i","v","e"," ","d","a","s","h",
             "b","o","a","r","d","s"," ","c","o","m","i","n","g"," ","t","o"," ","l",
             "i","f","e"," ","w","i","t","h"," ","c","o","n","f","i","d","e","n","t",
             " ","h","i","g","h","l","i","g","h","t","s",";"," ">>
           \o Interp(Prop(aspectProfile, "framing"))
      ELSE IF includes(lower, <<"l","e","a","r","n">>) \/ includes(lower, <<"t","r","a","i","n",
                                                                            "i",
                                                                            "n",
                                                                            "g">>)
      THEN <<"I","l","l","u","s","t","r","a","t","e"," ","a","n"," ","A","I"," ","t","r","a",
             "i","n","i","n","g"," ","l","o","o","p"," ","w","i","t","h"," ","l","a",
             "y","e","r","e","d"," ","a","n","i","m","a","t","i","o","n","s"," ","t",
             "h","a","t"," ","p","r","o","g","r","e","s","s","i","v","e","l","y"," ",
             "r","e","f","i","n","e",","," ","p","a","i","r","e","d"," ","w","i","t",
             "h"," ">>
           \o Interp(Prop(moodProfile, "motion")) \o <<".">>
      ELSE IF includes(lower, <<"e","x","p","e","r","i","e","n","c","e">>) \/ includes(lower, <<
                                                                                                "h",
                                                                                                "u",
                                                                                                "m",
                                                                                                "a",
                                                                                                "n",
                                                                                                "s">>)
      THEN <<"C","o","n","t","r","a","s","t"," ","h","u","m","a","n"," ","l","e","a","r","n",
             "i","n","g"," ","a","n","d"," ","m","a","c","h","i","n","e"," ","l","e",
             "a","r","n","i","n","g"," ","t","h","r","o","u","g","h"," ","m","i","r",
             "r","o","r","e","d"," ","c","o","m","p","o","s","i","t","i","o","n","s",
             ","," ","g","e","n","t","l","y"," ","l","i","t"," ","t","o"," ","s","t",
             "a","y"," ">>
           \o Interp(Prop(moodProfile, "lighting")) \o <<".">>
      ELSE IF moodProfile.kind # "own" THEN TypeError
      ELSE <<"C","r","e","a","t","e"," ","c","a","l","m",","," ","a","b","s","t","r","a","c",
             "t"," ","i","m","a","g","e","r","y"," ","a","r","o","u","n","d"," ">> \o keyword \o <<
                                                                                                   ",",
                                                                                                   " ",
                                                                                                   "u",
                                                                                                   "s",
                                                                                                   "i",
                                                                                                   "n",
                                                                                                   "g",
                                                                                                   " ">>
           \o moodProfile.value.colorPalette[1] \o <<" ","a","n","d"," ">>
           \o moodProfile.value.colorPalette[2] \o <<" ","a","c","c","e","n","t","s",".">>

createSupportingAssets(voiceover, keyword) ==
  LET lower == toLowerCase(voiceover)
  IN  (IF includes(lower, <<"d","a","t","a">>)
         THEN << <<"O","v","e","r","l","a","y"," ","g","r","a","p","h"," ","t","h","a","t"," ",
                   "p","u","l","s","e","s"," ","i","n"," ","s","y","n","c"," ",
                   "w","i","t","h"," ","n","a","r","r","a","t","i","o","n",
                   ".">> >> ELSE <<>>)
      \o (IF includes(lower, <<"p","r","e","d","i","c","t">>)
            THEN << <<"H","U","D","-","s","t","y","l","e"," ","a","n","i","m","a","t","i","o",
                      "n"," ","s","h","o","w","i","n","g"," ","p","r","o",
                      "b","a","b","i","l","i","t","y"," ","b","a","r","s",
                      " ","f","i","l","l","i","n","g"," ","u","p",".">> >> ELSE <<>>)
      \o (IF includes(lower, <<"a","d","j","u","s","t">>) \/ includes(lower, <<"i","m","p","r",
                                                                               "o",
                                                                               "v",
                                                                               "e",
                                                                               "s">>)
            THEN << <<"P","r","o","g","r","e","s","s"," ","b","a","r"," ","t","h","a","t"," ",
                      "s","u","b","t","l","y"," ","a","d","v","a","n","c",
                      "e","s"," ","w","i","t","h"," ","e","a","c","h"," ",
                      "b","e","a","t",".">> >> ELSE <<>>)
      \o << <<"B","-","r","o","l","l",":"," ","c","o","n","t","e","x","t","u","a","l"," ","v",
              "i","s","u","a","l","s"," ","h","i","g","h","l","i","g","h","t","i",
              "n","g"," ">> \o keyword \o <<".">> >>

clamp(value, min, max) == Min2(Max2(value, min), max)

\* text.split(/\s+/).filter(Boolean).length
wordCount(text) == Len(filterBoolean(split(text, Whitespace)))

MinSeconds == 4

MaxSeconds == 9

\* estimateDurationSeconds with Math.floor for Math.round
estimateDurationSeconds_Floor(text) ==
  clamp((10 * wordCount(text)) \div 27, MinSeconds, MaxSeconds)

\* Math.round(wordCount / 2.7) = floor(wordCount / 2.7 + 1/2) = floor((20 * wordCount + 27) / 54)
estimateDurationSeconds(text) ==
  clamp((20 * wordCount(text) + 27) \div 54, MinSeconds, MaxSeconds)

RECURSIVE totalWords(_)
totalWords(beats) ==
  IF beats = <<>> THEN 0 ELSE wordCount(Head(beats)) + totalWords(Tail(beats))

\* Math.round(averageWordsPerBeat(beats)) = floor(total / n + 1/2)
roundedAverageWordsPerBeat(beats) ==
  IF Len(beats) = 0 THEN 0 ELSE (2 * totalWords(beats) + Len(beats)) \div (2 * Len(beats))

formatDuration(seconds) == NumToString(seconds) \o <<"s">>

\* buildSceneLabel with the first two tests in the other order
buildSceneLabel_ClosingFirst(index, total, voiceover) ==
  IF index = total - 1 THEN <<"C","l","o","s","i","n","g"," ","I","n","s","i","g","h","t">>
  ELSE IF index = 0 THEN <<"O","p","e","n","i","n","g"," ","H","o","o","k">>
  ELSE IF \/ includes(toLowerCase(voiceover), <<"l","e","a","r","n","s">>)
          \/ includes(toLowerCase(voiceover), <<"l","e","a","r","n","i","n","g">>)
  THEN <<"L","e","a","r","n","i","n","g"," ","B","e","a","t">>
  ELSE IF \/ includes(toLowerCase(voiceover), <<"p","r","e","d","i","c","t">>)
          \/ includes(toLowerCase(voiceover), <<"r","e","c","o","g","n","i","z","e">>)
  THEN <<"A","p","p","l","i","c","a","t","i","o","n"," ","B","e","a","t">>
  ELSE <<"B","e","a","t"," ">> \o NumToString(index + 1)

buildSceneLabel(index, total, voiceover) ==
  IF index = 0 THEN <<"O","p","e","n","i","n","g"," ","H","o","o","k">>
  ELSE IF index = total - 1 THEN <<"C","l","o","s","i","n","g"," ","I","n","s","i","g","h","t">>
  ELSE IF \/ includes(toLowerCase(voiceover), <<"l","e","a","r","n","s">>)
          \/ includes(toLowerCase(voiceover), <<"l","e","a","r","n","i","n","g">>)
  THEN <<"L","e","a","r","n","i","n","g"," ","B","e","a","t">>
  ELSE IF \/ includes(toLowerCase(voiceover), <<"p","r","e","d","i","c","t">>)
          \/ includes(toLowerCase(voiceover), <<"r","e","c","o","g","n","i","z","e">>)
  THEN <<"A","p","p","l","i","c","a","t","i","o","n"," ","B","e","a","t">>
  ELSE <<"B","e","a","t"," ">> \o NumToString(index + 1)

(***************************************************************************)
(* Document assembly                                                       *)
(***************************************************************************)
Thrown == [threw |-> TRUE]

\* scenePlan with the 0-based index as the id
scenePlan_ZeroBasedId(storyBeats, keywords, moodProfile, aspectProfile, index) ==
  LET voiceover == storyBeats[index + 1]
      primaryKeyword == selectKeywordForScene(voiceover, keywords, index)
  IN  [ id |-> index,
        label |-> buildSceneLabel(index, Len(storyBeats), voiceover),
        voiceover |-> voiceover,
        duration |-> formatDuration(estimateDurationSeconds(voiceover)),
        visuals |-> createVisualDirection(voiceover, primaryKeyword, moodProfile, aspectProfile),
        overlay |-> createOverlay(voiceover, primaryKeyword),
        assets |-> createSupportingAssets(voiceover, primaryKeyword) ]

\* The callback of storyBeats.map: the scene of the beat at index (0-based).
scenePlan(storyBeats, keywords, moodProfile, aspectProfile, index) ==
  LET voiceover == storyBeats[index + 1]
      primaryKeyword == selectKeywordForScene(voiceover, keywords, index)
  IN  [ id |-> index + 1,
        label |-> buildSceneLabel(index, Len(storyBeats), voiceover),
        voiceover |-> voiceover,
        duration |-> formatDuration(estimateDurationSeconds(voiceover)),
        visuals |-> createVisualDirection(voiceover, primaryKeyword, moodProfile, aspectProfile),
        overlay |-> createOverlay(voiceover, primaryKeyword),
        assets |-> createSupportingAssets(voiceover, primaryKeyword) ]

trimStory(story) == trim(RemoveChars(story, {"\r"}))

generateVideoScript(f) ==
  LET trimmedStory == trimStory(f.story)
      storyBeats == parseStoryBeats(trimmedStory)
      keywords == deriveKeywords(f.topic, trimmedStory, f.keywords)
      moodProfile == Nullish(Lookup(MOOD_PROFILES, f.mood), DEFAULT_MOOD_PROFILE)
      aspectProfile == Nullish(Lookup(ASPECT_GUIDANCE, f.aspectRatio), DEFAULT_ASPECT_GUIDANCE)
      languageLabel == Nullish(Lookup(LANGUAGE_LABELS, f.language), <<"E","n","g","l","i","s",
                                                                      "h">>)
      scenes ==
        [i \in 1..Len(storyBeats) |->
           scenePlan(storyBeats, keywords, moodProfile, aspectProfile, i - 1)]
  IN  IF \/ \E i \in 1..Len(storyBeats) : scenes[i].visuals = TypeError
         \* languageLabel.toLowerCase() of an inherited member, which is no string
         \/ languageLabel.kind # "own"
         \* moodProfile.audio.toLowerCase() of undefined
         \/ Prop(moodProfile, "audio") = Undefined
      THEN Thrown
      ELSE
        [ threw |-> FALSE,
          title |-> f.topic \o <<" ">> \o TitleDash \o <<" ">> \o Interp(capitalize(Prop(moodProfile, "voiceTone"))),
          subtitle |-> <<"A"," ">> \o toLowerCase(languageLabel.value) \o <<" ","e","x","p","l",
                                                                            "a",
                                                                            "i",
                                                                            "n",
                                                                            "e",
                                                                            "r",
                                                                            " ",
                                                                            "c",
                                                                            "r",
                                                                            "a",
                                                                            "f",
                                                                            "t",
                                                                            "e",
                                                                            "d",
                                                                            " ",
                                                                            "f",
                                                                            "o",
                                                                            "r",
                                                                            " ",
                                                                            "a",
                                                                            " ">>
                       \o f.aspectRatio \o <<" ","f","r","a","m","e",".">>,
          hook |-> Prop(moodProfile, "hookVerb") \o <<" ","v","i","e","w","e","r","s"," ","w",
                                                      "i",
                                                      "t",
                                                      "h",
                                                      ":",
                                                      " ",
                                                      "\"">>
                   \o scenes[1].voiceover \o <<"\"">>,
          callToAction |-> <<"C","l","o","s","e"," ","b","y"," ","r","e","i","n","f","o","r",
                             "c","i","n","g"," ","\"">> \o scenes[Len(storyBeats)].voiceover
                           \o <<"\""," ","a","n","d"," ","i","n","v","i","t","e"," ","v","i",
                                "e","w","e","r","s"," ","t","o",
                                " ","e","x","p","l","o","r","e",
                                " ","h","o","w"," ","t","h","e",
                                "y"," ","c","a","n"," ","a","p",
                                "p","l","y"," ","A","I"," ","i",
                                "n"," ","e","v","e","r","y","d",
                                "a","y"," ","w","o","r","k","f",
                                "l","o","w","s",".">>,
          aspectRatio |-> f.aspectRatio,
          mood |-> f.mood,
          language |-> languageLabel.value,
          pacing |-> Prop(moodProfile, "pacing"),
          audioRecommendation |-> Prop(moodProfile, "audio"),
          colorPalette |-> moodProfile.value.colorPalette,
          keywords |-> keywords,
          narrationStyle |-> capitalize(Prop(moodProfile, "voiceTone")) \o <<" ","d","e","l",
                                                                             "i",
                                                                             "v",
                                                                             "e",
                                                                             "r",
                                                                             "e",
                                                                             "d",
                                                                             " ",
                                                                             "i",
                                                                             "n",
                                                                             " ">>
                             \o languageLabel.value \o <<","," ","w","i","t","h"," ","n","a",
                                                         "t",
                                                         "u",
                                                         "r",
                                                         "a",
                                                         "l",
                                                         " ",
                                                         "p",
                                                         "a",
                                                         "u",
                                                         "s",
                                                         "e",
                                                         "s",
                                                         " ",
                                                         "t",
                                                         "h",
                                                         "a",
                                                         "t",
                                                         " ",
                                                         "l",
                                                         "a",
                                                         "n",
                                                         "d",
                                                         " ",
                                                         "e",
                                                         "v",
                                                         "e",
                                                         "r",
                                                         "y",
                                                         " ">>
                             \o NumToString(roundedAverageWordsPerBeat(storyBeats)) \o <<" ",
                                                                                         "w",
                                                                                         "o",
                                                                                         "r",
                                                                                         "d",
                                                                                         "s",
                                                                                         ".">>,
          scenes |-> scenes,
          productionNotes |->
            << Prop(aspectProfile, "safeZone"),
               <<"U","n","d","e","r","s","c","o","r","e"," ","n","a","r","r","a","t","i","o",
                 "n"," ","w","i","t","h"," ">> \o toLowerCase(Prop(moodProfile, "audio"))
                 \o <<" ","m","i","x","e","d"," ","a","t"," ","-","1","8"," ","L","U","F","S",
                      " ","f","o","r"," ","c","l","a","r","i","t","y",".">>,
               <<"A","n","i","m","a","t","e"," ","k","e","y"," ","p","h","r","a","s","e","s",
                 " ","l","i","k","e"," ">>
                 \o join(MapSeq(slice(keywords, 3), capitalize), <<","," ">>)
                 \o <<" ","u","s","i","n","g"," ">> \o Prop(moodProfile, "motion") \o <<".">> >> ]

(***************************************************************************)
(* The page: URL parameters, form state, handlers                          *)
(***************************************************************************)
DEFAULT_FORM ==
  [ topic |-> <<"H","o","w"," ","A","I"," ","W","o","r","k","s">>,
    story |-> <<"A","r","t","i","f","i","c","i","a","l"," ","i","n","t","e","l","l","i","g","e",
                "n","c","e"," ","i","s"," ","a"," ","s","y","s","t","e","m"," ",
                "t","h","a","t"," ","l","e","a","r","n","s"," ","p","a","t","t",
                "e","r","n","s"," ","f","r","o","m"," ","d","a","t","a",".","\n",
                "I","t"," ","s","t","u","d","i","e","s"," ","t","h","o","u","s",
                "a","n","d","s"," ","o","f"," ","e","x","a","m","p","l","e","s",
                " ","t","o"," ","u","n","d","e","r","s","t","a","n","d"," ","h",
                "o","w"," ","t","h","i","n","g","s"," ","r","e","l","a","t","e",
                ".","\n","O","n","c","e"," ","t","r","a","i","n","e","d",","," ",
                "i","t"," ","c","a","n"," ","r","e","c","o","g","n","i","z","e",
                " ","i","m","a","g","e","s",","," ","p","r","e","d","i","c","t",
                " ","o","u","t","c","o","m","e","s",","," ","o","r"," ","g","e",
                "n","e","r","a","t","e"," ","t","e","x","t",".","\n","A","I"," ",
                "i","m","p","r","o","v","e","s"," ","t","h","r","o","u","g","h",
                " ","r","e","p","e","a","t","e","d"," ","l","e","a","r","n","i",
                "n","g",","," ","a","d","j","u","s","t","i","n","g"," ","i","t",
                "s","e","l","f"," ","e","a","c","h"," ","t","i","m","e",".","\n",
                "I","n"," ","s","i","m","p","l","e"," ","t","e","r","m","s",",",
                " ","A","I"," ","l","e","a","r","n","s"," ","f","r","o","m"," ",
                "e","x","p","e","r","i","e","n","c","e",","," ","j","u","s","t",
                " ","l","i","k","e"," ","h","u","m","a","n","s"," ","d","o",".">>,
    aspectRatio |-> <<"1","6",":","9">>,
    mood |-> <<"c","a","l","m">>,
    keywords |-> <<"A","I"," ","b","a","s","i","c","s",","," ","m","a","c","h","i","n","e"," ",
                   "l","e","a","r","n","i","n","g",","," ","n","e","u","r","a",
                   "l"," ","n","e","t","w","o","r","k","s",","," ","t","e","c",
                   "h","n","o","l","o","g","y"," ","e","x","p","l","a","i","n",
                   "e","d",","," ","h","o","w"," ","A","I"," ","w","o","r","k",
                   "s">>,
    language |-> <<"e","n">> ]

FormKeys == {"topic", "story", "aspectRatio", "mood", "keywords", "language"}

\* null, where a string was expected
Null == <<"null">>

\* An unpaired surrogate code unit and U+FFFD, one model character each.
Surrogate == "[U+D800]"

Replacement == "[U+FFFD]"

\* The arguments of URLSearchParams' methods are USVStrings: an unpaired
\* surrogate of the JavaScript string is replaced by U+FFFD.
toUSVString(s) == MapChars(s, LAMBDA c : IF c = Surrogate THEN Replacement ELSE c)

\* URLSearchParams is a list of <<name, value>> pairs; get(name) is the value
\* of the first pair of that name, or null.
paramsGet(params, name) ==
  LET at == {i \in 1..Len(params) : params[i][1] = toUSVString(name)}
  IN  IF at = {} THEN Null ELSE params[SetMin(at)][2]

\* set(name, value): the first pair of that name gets the value and the later
\* ones go; with no such pair, one is appended.
paramsSet(params, name, value) ==
  LET n == toUSVString(name)
      v == toUSVString(value)
      at == {i \in 1..Len(params) : params[i][1] = n}
  IN  IF at = {} THEN Append(params, <<n, v>>)
      ELSE SubSeq(params, 1, SetMin(at) - 1) \o << <<n, v>> >>
           \o SelectSeq(SubSeq(params, SetMin(at) + 1, Len(params)), LAMBDA p : p[1] # n)

\* The ASCII characters of the model: the printable ones, in code order from
\* 32, and tab, line feed and carriage return.
\* (U+0060, which a string of this module cannot hold, is written out.)
AsciiPrintable ==
  <<" ","!","\"","#","$","%","&","'","(",")","*","+",",","-",".","/","0","1","2","3","4","5",
    "6","7","8","9",":",";","<","=",">","?","@","A","B","C","D","E","F","G","H","I","J","K",
    "L","M","N","O","P","Q","R","S","T","U","V","W","X","Y","Z","[","\\","]","^","_">>
    \o <<"[U+0060]">> \o <<"a","b","c","d","e","f","g","h","i","j","k","l","m","n","o","p","q",
                           "r","s","t","u","v","w","x","y","z","{","|",
                           "}","~">>

CharCode ==
  [c \in Range(AsciiPrintable) \cup {"\t", "\n", "\r"} |->
     IF c = "\t" THEN 9 ELSE IF c = "\n" THEN 10 ELSE IF c = "\r" THEN 13
     ELSE 31 + CHOOSE i \in 1..Len(AsciiPrintable) : AsciiPrintable[i] = c]

\* A character of an ASCII code that the model has no character for.
OtherControl == "[C0]"

CharOfCode ==
  [b \in 0..127 |->
     IF b = 9 THEN "\t" ELSE IF b = 10 THEN "\n" ELSE IF b = 13 THEN "\r"
     ELSE IF b >= 32 /\ b <= 126 THEN AsciiPrintable[b - 31] ELSE OtherControl]

\* The UTF-8 bytes of a character.
Utf8Bytes(c) == IF c = Replacement THEN <<239, 191, 189>> ELSE <<CharCode[c]>>

HexDigits == <<"0","1","2","3","4","5","6","7","8","9","A","B","C","D","E","F">>

PercentByte(b) == <<"%", HexDigits[(b \div 16) + 1], HexDigits[(b % 16) + 1]>>

\* The application/x-www-form-urlencoded serializer: letters, digits and
\* * - . _ stay, a space becomes +, every other byte is percent-encoded.
FormUnreserved == UpperSet \cup LowerSet \cup DigitSet \cup {"*", "-", ".", "_"}

urlencodeChar(c) ==
  IF c = " " THEN <<"+">>
  ELSE IF c \in FormUnreserved THEN <<c>>
  ELSE LET bytes == Utf8Bytes(c)
       IN  Flatten([k \in 1..Len(bytes) |-> PercentByte(bytes[k])])

urlencode(s) == Flatten(MapSeq(s, urlencodeChar))

\* URLSearchParams.prototype.toString()
paramsToString(params) ==
  join(MapSeq(params, LAMBDA p : urlencode(p[1]) \o <<"=">> \o urlencode(p[2])), <<"&">>)

HexValue(c) ==
  LET at == {k \in 1..16 : HexDigits[k] = ToUpperChar(c)}
  IN  IF at = {} THEN -1 ELSE SetMin(at) - 1

\* The byte written as %XY at index i of s, or -1 when there is none.
ByteAt(s, i) ==
  IF i + 2 <= Len(s) /\ s[i] = "%" /\ HexValue(s[i + 1]) >= 0 /\ HexValue(s[i + 2]) >= 0
  THEN 16 * HexValue(s[i + 1]) + HexValue(s[i + 2])
  ELSE -1

\* The index at which the piece of s holding index i starts: a %XY holds
\* three indices, any other character its own.
escapeStart(s, i) ==
  IF i >= 2 /\ ByteAt(s, i - 1) >= 0 THEN i - 1
  ELSE IF i >= 3 /\ ByteAt(s, i - 2) >= 0 THEN i - 2
  ELSE i

\* Percent-decoding of s[lo..hi], a run of whole pieces, to bytes: %XY is the
\* byte XY, + is a space, any other character is its own code.
RECURSIVE percentDecode(_, _, _)
percentDecode(s, lo, hi) ==
  IF lo > hi THEN <<>>
  ELSE IF lo = hi THEN <<IF s[lo] = "+" THEN 32 ELSE CharCode[s[lo]]>>
  ELSE LET m == escapeStart(s, (lo + hi + 1) \div 2)
       IN  IF m = lo THEN <<ByteAt(s, lo)>> \o percentDecode(s, lo + 3, hi)
           ELSE percentDecode(s, lo, m - 1) \o percentDecode(s, m, hi)

\* The bytes EF BF BD, the UTF-8 of U+FFFD, start at index i of bytes.
IsReplacementAt(bytes, i) ==
  i >= 1 /\ i + 2 <= Len(bytes) /\ bytes[i] = 239 /\ bytes[i + 1] = 191 /\ bytes[i + 2] = 189

sequenceStart(bytes, i) ==
  IF IsReplacementAt(bytes, i - 1) THEN i - 1
  ELSE IF IsReplacementAt(bytes, i - 2) THEN i - 2
  ELSE i

\* UTF-8 decoding of bytes[lo..hi], a run of whole characters: an ASCII byte
\* is its character, EF BF BD is U+FFFD, and any other byte, no UTF-8 of a
\* character of the model, decodes to U+FFFD.
RECURSIVE utf8Decode(_, _, _)
utf8Decode(bytes, lo, hi) ==
  IF lo > hi THEN <<>>
  ELSE IF lo = hi THEN <<IF bytes[lo] < 128 THEN CharOfCode[bytes[lo]] ELSE Replacement>>
  ELSE LET m == sequenceStart(bytes, (lo + hi + 1) \div 2)
       IN  IF m = lo THEN <<Replacement>> \o utf8Decode(bytes, lo + 3, hi)
           ELSE utf8Decode(bytes, lo, m - 1) \o utf8Decode(bytes, m, hi)

urldecode(s) ==
  LET bytes == percentDecode(s, 1, Len(s))
  IN  utf8Decode(bytes, 1, Len(bytes))

\* One name=value piece of a query, split at its first "=".
parsePair(piece) ==
  LET eq == FindNext(piece, {"="}, 1)
  IN  <<urldecode(SubSeq(piece, 1, eq - 1)), urldecode(SubSeq(piece, eq + 1, Len(piece)))>>

\* useSearchParams(): the URLSearchParams of the query in the address bar,
\* its leading "?" dropped, its non-empty pieces between "&" parsed.
parseSearch(query) ==
  LET q == IF query # <<>> /\ query[1] = "?" THEN Tail(query) ELSE query
      pieces == filterBoolean(split(q, {"&"}))
  IN  MapSeq(pieces, parsePair)

\* a ?? b on a string or null
OrElse(a, b) == IF a = Null THEN b ELSE a

\* loadFormFromParams with || for ??: an empty value gives way to the default too.
loadFormFromParams_EmptyIsMissing(params) ==
  LET get(name) == paramsGet(params, name)
      Or(a, b) == IF a = Null \/ a = <<>> THEN b ELSE a
  IN  [ topic |-> Or(get(<<"t","o","p","i","c">>), DEFAULT_FORM.topic),
        story |-> Or(get(<<"s","t","o","r","y">>), DEFAULT_FORM.story),
        aspectRatio |->
          Or(get(<<"a","s","p","e","c","t","_","r","a","t","i","o">>), Or(get(<<"a","s","p","e",
                                                                                "c",
                                                                                "t",
                                                                                "R",
                                                                                "a",
                                                                                "t",
                                                                                "i",
                                                                                "o">>), DEFAULT_FORM.aspectRatio)),
        mood |-> Or(get(<<"m","o","o","d">>), DEFAULT_FORM.mood),
        keywords |->
          Or(get(<<"k","e","y","w","o","r","d","s">>), Or(get(<<"r","e","l","a","t","e","d","_",
                                                                "k",
                                                                "e",
                                                                "y",
                                                                "w",
                                                                "o",
                                                                "r",
                                                                "d",
                                                                "s">>), DEFAULT_FORM.keywords)),
        language |-> Or(get(<<"l","a","n","g","u","a","g","e">>), DEFAULT_FORM.language) ]

\* useSearchParams() of the app router always yields an object, so the
\* "!params" return is not taken.
loadFormFromParams(params) ==
  LET get(name) == paramsGet(params, name)
  IN  [ topic |-> OrElse(get(<<"t","o","p","i","c">>), DEFAULT_FORM.topic),
        story |-> OrElse(get(<<"s","t","o","r","y">>), DEFAULT_FORM.story),
        aspectRatio |->
          OrElse(get(<<"a","s","p","e","c","t","_","r","a","t","i","o">>), OrElse(get(<<"a","s",
                                                                                        "p",
                                                                                        "e",
                                                                                        "c",
                                                                                        "t",
                                                                                        "R",
                                                                                        "a",
                                                                                        "t",
                                                                                        "i",
                                                                                        "o">>), DEFAULT_FORM.aspectRatio)),
        mood |-> OrElse(get(<<"m","o","o","d">>), DEFAULT_FORM.mood),
        keywords |->
          OrElse(get(<<"k","e","y","w","o","r","d","s">>), OrElse(get(<<"r","e","l","a","t","e",
                                                                        "d",
                                                                        "_",
                                                                        "k",
                                                                        "e",
                                                                        "y",
                                                                        "w",
                                                                        "o",
                                                                        "r",
                                                                        "d",
                                                                        "s">>), DEFAULT_FORM.keywords)),
        language |-> OrElse(get(<<"l","a","n","g","u","a","g","e">>), DEFAULT_FORM.language) ]

buildSearchParams(f) ==
  LET p1 == paramsSet(<<>>, <<"t","o","p","i","c">>, f.topic)
      p2 == paramsSet(p1, <<"s","t","o","r","y">>, f.story)
      p3 == paramsSet(p2, <<"a","s","p","e","c","t","_","r","a","t","i","o">>, f.aspectRatio)
      p4 == paramsSet(p3, <<"m","o","o","d">>, f.mood)
      p5 == paramsSet(p4, <<"k","e","y","w","o","r","d","s">>, f.keywords)
  IN  paramsSet(p5, <<"l","a","n","g","u","a","g","e">>, f.language)

\* serializedParams, and the query the useEffect puts in the address bar
serializedParams(f) == paramsToString(buildSearchParams(f))

shareQuery(f) == <<"?">> \o serializedParams(f)

\* window.location.origin
Origin == <<"h","t","t","p",":","/","/","l","o","c","a","l","h","o","s","t",":","3","0","0",
            "0">>

shareUrl(f) == Origin \o shareQuery(f)

\* The delay of the timer that puts the copy indicator back.
CopiedMillis == 2000

\* How many copies of the link can be under way (written or timed) at once,
\* and the step by which time advances.
MaxCopies == 2

TickMillis == 1000

\* HomeContent's first render on the query of the address bar: both useState
\* initializers run, then the effect that rewrites the query.  A
\* generateVideoScript that throws fails the render: no plan is displayed,
\* no effect runs and no handler is ever attached.
firstRender(query) ==
  {[ form |-> loaded, script |-> plan, copyState |-> "idle",
     search |-> IF plan.threw THEN query ELSE shareQuery(loaded) ] :
     <<loaded, plan>> \in
       {<<f, generateVideoScript(f)>> : f \in {loadFormFromParams(parseSearch(query))}}}

HomeContent(query) ==
  \E page \in firstRender(query) :
    /\ form = page.form
    /\ request = page.form
    /\ result = page.script
    /\ script = page.script
    /\ copyState = page.copyState
    /\ search = page.search
    /\ writes = <<>>
    /\ timers = <<>>
    /\ clipboard = <<>>
    /\ opened = query

Mounted == ~script.threw

\* A handler that also regenerates the plan on every edit
handleChange_LivePreview(key, value) ==
  /\ Mounted
  /\ copyState' = "idle"
  /\ form' = [form EXCEPT ![key] = value]
  /\ search' = shareQuery(form')
  /\ script' = generateVideoScript(form')
  /\ UNCHANGED <<writes, timers, clipboard, opened, request, result>>

handleChange(key, value) ==
  /\ Mounted
  /\ copyState' = "idle"
  /\ form' = [form EXCEPT ![key] = value]
  /\ search' = shareQuery(form')
  /\ UNCHANGED <<script, writes, timers, clipboard, opened, request, result>>

\* setScript(generateVideoScript(form)): a call that throws sets nothing.
handleSubmit ==
  /\ Mounted
  /\ request' = form
  /\ result' = generateVideoScript(form)
  /\ script' = IF result'.threw THEN script ELSE result'
  /\ UNCHANGED <<form, copyState, search, writes, timers, clipboard, opened>>

\* The page is loaded again on the query in its address bar (a reload, or the
\* share link opened in another tab): a first render, nothing of the old
\* page left.
reopen ==
  /\ Mounted
  /\ \E page \in firstRender(search) :
       /\ form' = page.form
       /\ request' = page.form
       /\ result' = page.script
       /\ script' = page.script
       /\ copyState' = page.copyState
       /\ search' = page.search
       /\ writes' = <<>>
       /\ timers' = <<>>
       /\ opened' = search
       /\ UNCHANGED clipboard

\* The click on "Copy share link": shareUrl is never empty in a browser, so
\* the write of the link of the rendered form starts; it settles later.
handleCopyShareLink ==
  /\ Mounted
  /\ shareUrl(form) # <<>>
  /\ Len(writes) + Len(timers) < MaxCopies
  /\ writes' = Append(writes, shareUrl(form))
  /\ UNCHANGED <<form, script, copyState, search, timers, clipboard, opened, request, result>>

RemoveAt(s, i) == SubSeq(s, 1, i - 1) \o SubSeq(s, i + 1, Len(s))

\* await navigator.clipboard.writeText(shareUrl) resolves: the indicator
\* shows "copied" and a timer of 2000 ms is started; no timer is ever cleared.
writeResolves(i) ==
  /\ i \in DOMAIN writes
  /\ clipboard' = writes[i]
  /\ writes' = RemoveAt(writes, i)
  /\ copyState' = "copied"
  /\ timers' = Append(timers, CopiedMillis)
  /\ UNCHANGED <<form, script, search, opened, request, result>>

\* A catch block that reports the failure on the indicator
writeRejects_ShowsCopied(i) ==
  /\ i \in DOMAIN writes
  /\ writes' = RemoveAt(writes, i)
  /\ copyState' = "copied"
  /\ UNCHANGED <<form, script, search, timers, clipboard, opened, request, result>>

\* The write rejects: the catch block logs to the console, nothing else.
writeRejects(i) ==
  /\ i \in DOMAIN writes
  /\ writes' = RemoveAt(writes, i)
  /\ UNCHANGED <<form, script, copyState, search, timers, clipboard, opened, request, result>>

\* The callback of setTimeout, once its delay has passed.
timerFires ==
  /\ timers # <<>>
  /\ timers[1] = 0
  /\ timers' = Tail(timers)
  /\ copyState' = "idle"
  /\ UNCHANGED <<form, script, search, writes, clipboard, opened, request, result>>

\* Time passes, while no timer is due: every running timer has less to wait.
\* Timers all have the same delay, so the oldest is the first to be due.
Tick ==
  /\ timers # <<>>
  /\ timers[1] > 0
  /\ timers' = [i \in DOMAIN timers |-> IF timers[i] > TickMillis THEN timers[i] - TickMillis ELSE 0]
  /\ UNCHANGED <<form, script, copyState, search, writes, clipboard, opened, request, result>>

ASPECT_OPTIONS == { <<"1","6",":","9">>, <<"9",":","1","6">>, <<"1",":","1">> }

MOOD_OPTIONS == { <<"c","a","l","m">>, <<"e","n","e","r","g","e","t","i","c">>, <<"i","n","s",
                                                                                  "p",
                                                                                  "i",
                                                                                  "r",
                                                                                  "a",
                                                                                  "t",
                                                                                  "i",
                                                                                  "o",
                                                                                  "n",
                                                                                  "a",
                                                                                  "l">> }

(***************************************************************************)
(* The requests the generator is checked on                                *)
(***************************************************************************)
MaxStoryLen == 4

MaxKeywordsLen == 3

MaxLines == 3

MaxWords == 27

StringsUpTo(Alphabet, n) == UNION {[1..k -> Alphabet] : k \in 0..n}

BaseRequest ==
  [ topic |-> <<>>, story |-> <<>>, aspectRatio |-> <<"1","6",":","9">>, mood |-> <<"c","a","l",
                                                                                    "m">>,
    keywords |-> <<>>, language |-> <<"e","n">> ]

\* Every story of at most MaxStoryLen characters over a lower-case letter, an
\* upper-case letter, a sentence mark, a blank and a line break.
StoryAlphabet == {"a", "B", ".", " ", "\n"}

SegmentationRequests ==
  {[BaseRequest EXCEPT !.story = s] : s \in StringsUpTo(StoryAlphabet, MaxStoryLen)}

\* Every keywords field of at most MaxKeywordsLen characters over "a", "I",
\* "b", a blank and a comma, against a text that derives "bab" and "bai".
KeywordsAlphabet == {"a", "I", "b", " ", ","}

KeywordsRequests ==
  {[BaseRequest EXCEPT !.topic = <<"b","a","i"," ","a","b">>, !.story = <<"a","I"," ","b","a",
                                                                          "b",
                                                                          " ",
                                                                          "b",
                                                                          "a",
                                                                          "b">>, !.keywords = k] :
     k \in StringsUpTo(KeywordsAlphabet, MaxKeywordsLen)}

\* Stories of one to MaxLines lines, each line one of these beats.
BeatVocabulary ==
  { <<"A","I"," ","l","e","a","r","n","s"," ","f","r","o","m"," ","d","a","t","a",".">>, <<"I",
                                                                                           "t",
                                                                                           " ",
                                                                                           "p",
                                                                                           "r",
                                                                                           "e",
                                                                                           "d",
                                                                                           "i",
                                                                                           "c",
                                                                                           "t",
                                                                                           "s",
                                                                                           " ",
                                                                                           "o",
                                                                                           "u",
                                                                                           "t",
                                                                                           "c",
                                                                                           "o",
                                                                                           "m",
                                                                                           "e",
                                                                                           "s",
                                                                                           ".">>, <<
                                                                                                    "W",
                                                                                                    "e",
                                                                                                    " ",
                                                                                                    "r",
                                                                                                    "e",
                                                                                                    "c",
                                                                                                    "o",
                                                                                                    "g",
                                                                                                    "n",
                                                                                                    "i",
                                                                                                    "z",
                                                                                                    "e",
                                                                                                    " ",
                                                                                                    "h",
                                                                                                    "u",
                                                                                                    "m",
                                                                                                    "a",
                                                                                                    "n",
                                                                                                    "s">>,
    <<"P","l","a","i","n"," ","w","o","r","d","s">> }

LinesUpTo(n) == UNION {[1..k -> BeatVocabulary] : k \in 1..n}

SceneRequests ==
  {[BaseRequest EXCEPT !.story = join(ls, <<"\n">>), !.keywords = <<"w","o","r","d","s",";","a",
                                                                    "i">>] :
     ls \in LinesUpTo(MaxLines)}

\* One-line stories under every mood, aspect ratio and language: the table
\* keys, names no table and no prototype has, and names Object.prototype
\* defines; and the empty story under every mood.
MoodInputs == MOOD_OPTIONS \cup { <<"n","o","n","e","x","i","s","t","e","n","t">>, <<>>, <<"c",
                                                                                           "o",
                                                                                           "n",
                                                                                           "s",
                                                                                           "t",
                                                                                           "r",
                                                                                           "u",
                                                                                           "c",
                                                                                           "t",
                                                                                           "o",
                                                                                           "r">>, <<
                                                                                                    "_",
                                                                                                    "_",
                                                                                                    "p",
                                                                                                    "r",
                                                                                                    "o",
                                                                                                    "t",
                                                                                                    "o",
                                                                                                    "_",
                                                                                                    "_">> }

AspectInputs == ASPECT_OPTIONS \cup { <<"4",":","3">>, <<"t","o","S","t","r","i","n","g">> }

LanguageInputs == { <<"e","n">>, <<"x","x">>, <<"v","a","l","u","e","O","f">> }

ProfileRequests ==
  {[BaseRequest EXCEPT !.story = s, !.mood = m, !.aspectRatio = a, !.language = l] :
     s \in { <<"I","t"," ","p","r","e","d","i","c","t","s"," ","o","u","t","c","o","m","e","s",
               ".">>, <<"P","l","a","i","n"," ","w","o","r","d","s">> }, m \in MoodInputs,
     a \in AspectInputs, l \in LanguageInputs}
    \cup {[BaseRequest EXCEPT !.mood = m] : m \in MoodInputs}

\* One beat of 1..MaxWords words.
RECURSIVE Words(_)
Words(n) == IF n = 1 THEN <<"a">> ELSE Words(n - 1) \o (IF n % 2 = 0 THEN <<" ">> ELSE <<" ",
                                                                                         "\t">>) \o <<
                                                                                                      "a">>

DurationRequests == {[BaseRequest EXCEPT !.story = Words(n)] : n \in 1..MaxWords}

\* The page's default form, the scenario of the specification, and stories
\* and keywords with carriage returns, tabs and mixed separators.
ScenarioRequest ==
  [ topic |-> <<"H","o","w"," ","A","I"," ","W","o","r","k","s">>, story |-> <<"A","I"," ","l",
                                                                               "e",
                                                                               "a",
                                                                               "r",
                                                                               "n",
                                                                               "s",
                                                                               " ",
                                                                               "f",
                                                                               "r",
                                                                               "o",
                                                                               "m",
                                                                               " ",
                                                                               "d",
                                                                               "a",
                                                                               "t",
                                                                               "a",
                                                                               ".",
                                                                               " ",
                                                                               "I",
                                                                               "t",
                                                                               " ",
                                                                               "p",
                                                                               "r",
                                                                               "e",
                                                                               "d",
                                                                               "i",
                                                                               "c",
                                                                               "t",
                                                                               "s",
                                                                               " ",
                                                                               "o",
                                                                               "u",
                                                                               "t",
                                                                               "c",
                                                                               "o",
                                                                               "m",
                                                                               "e",
                                                                               "s",
                                                                               ".">>,
    aspectRatio |-> <<"9",":","1","6">>, mood |-> <<"e","n","e","r","g","e","t","i","c">>, keywords |-> <<>>, language |-> <<
                                                                                                                             "e",
                                                                                                                             "n">> ]

ExampleKeywords == <<"A","I",","," ","a","i",","," ","M","a","c","h","i","n","e"," ","L","e",
                     "a","r","n","i","n","g">>

\* Words of three counts, ties within a count, stop words, words of one and
\* two letters, and more than eight words to rank.
RankingRequest ==
  [BaseRequest EXCEPT
     !.topic = <<"W","h","a","t"," ","t","h","e"," ","d","a","t","a"," ","d","o","e","s">>,
     !.story = <<"M","o","d","e","l","s"," ","r","a","n","k"," ","D","A","T","A",";"," ","t",
                 "h","e"," ","m","o","d","e","l","s",","," ","d","a","t","a","-",
                 "d","r","i","v","e","n",":"," ","x","1"," ","a","b"," ","t","h",
                 "e","2"," ","o","n","e"," ","t","w","o"," ","T","h","r","e","e",
                 " ","f","o","u","r"," ","f","i","v","e"," ","s","i","x"," ","s",
                 "e","v","e","n","."," ","S","o"," ","o","n","4">>]

\* Two caller keywords, none derived; beats that hold neither, beyond the
\* length of the list, and beats that hold one or both in another case or order.
FallbackRequest ==
  [BaseRequest EXCEPT
     !.story = <<"S","o"," ","i","t"," ","i","s",".","\n","W","e"," ","d","o"," ","i","t",".",
                 "\n","I","t"," ","i","s"," ","o","n",".","\n","a","i"," ","o",
                 "r"," ","Q","Q","\n","A","n"," ","a","i"," ","i","s"," ","i",
                 "t">>,
     !.keywords = <<"q","q",","," ","a","i">>]

NamedRequests ==
  { DEFAULT_FORM,
    ScenarioRequest,
    [DEFAULT_FORM EXCEPT !.keywords = ExampleKeywords],
    [ScenarioRequest EXCEPT !.keywords = ExampleKeywords],
    [BaseRequest EXCEPT !.keywords = ExampleKeywords],
    [BaseRequest EXCEPT !.story = <<" ","\r","\n","\t"," ","\r","\n">>],
    [BaseRequest EXCEPT !.story = <<"O","n","e","\r","\n","T","w","o",".","\r"," ","T","h","r",
                                    "e","e","!"," ","f","o",
                                    "u","r","?","\t","F","i",
                                    "v","e","\r","\n","\r",
                                    "\n"," "," ","s","i","x",
                                    " ">>],
    [DEFAULT_FORM EXCEPT !.story = <<>>, !.keywords = <<"L","e","a","r","n","i","n","g",";"," ",
                                                        " ",
                                                        "A",
                                                        "I",
                                                        "\n",
                                                        "a",
                                                        "i",
                                                        " ",
                                                        ",",
                                                        ",",
                                                        "b",
                                                        "r",
                                                        "a",
                                                        "i",
                                                        "n">>],
    [BaseRequest EXCEPT !.story = <<"T","r","a","i","n","i","n","g"," ","A","I"," ","i","m","p",
                                    "r","o","v","e","s"," ",
                                    "b","r","a","i","n","s",
                                    ","," ","w","e"," ","a",
                                    "d","j","u","s","t",".",
                                    "\n","a","i"," ","b"," ",
                                    "a","I">>,
                        !.keywords = <<"b"," ","a","I">>],
    [BaseRequest EXCEPT !.story = join(DefaultBeats, <<"\n">>)],
    RankingRequest,
    FallbackRequest,
    [RankingRequest EXCEPT !.story = <<" ","\r","\n"," ">>, !.keywords = <<" ",",",";","\n">>],
    [DEFAULT_FORM EXCEPT !.keywords = <<>>] }

GenRequests ==
  SegmentationRequests \cup KeywordsRequests \cup SceneRequests \cup ProfileRequests
    \cup DurationRequests \cup NamedRequests

\* The page opened on the share link of a request.
GenInit == \E r \in GenRequests : HomeContent(shareQuery(r))

\* The edits made there: a select put back on its default option.
GenEdits == { <<"mood", DEFAULT_FORM.mood>>, <<"language", DEFAULT_FORM.language>> }

GenNext ==
  \/ \E e \in GenEdits : handleChange(e[1], e[2])
  \/ handleSubmit

SpecGen == GenInit /\ [][GenNext]_vars

(***************************************************************************)
(* The page and its share link                                             *)
(***************************************************************************)
\* Queries a page is opened on: none, one parameter, both aliases of a field
\* in either order, the second alias only, an empty first alias, a name
\* twice, an empty piece, a piece without "=", and escapes in lower case.
OpenedQueries ==
  { <<>>,
    <<"?","t","o","p","i","c","=","T","&","s","t","o","r","y","=","s">>,
    <<"?","a","s","p","e","c","t","R","a","t","i","o","=","9","%","3","A","1","6","&","a","s",
      "p","e","c","t","_","r","a","t","i","o","=","1","%","3","A","1","&","r","e","l","a",
      "t","e","d","_","k","e","y","w","o","r","d","s","=","r","k","&","k","e","y","w","o",
      "r","d","s","=","k","+","w","&","s","t","o","r","y","=","s","+","t">>,
    <<"?","a","s","p","e","c","t","_","r","a","t","i","o","=","1","%","3","A","1","&","a","s",
      "p","e","c","t","R","a","t","i","o","=","9","%","3","A","1","6","&","k","e","y","w",
      "o","r","d","s","=","k","%","2","c","w","&","r","e","l","a","t","e","d","_","k","e",
      "y","w","o","r","d","s","=","r","k","&","s","t","o","r","y","=","s">>,
    <<"?","a","s","p","e","c","t","R","a","t","i","o","=","9","%","3","A","1","6","&","r","e",
      "l","a","t","e","d","_","k","e","y","w","o","r","d","s","=","r","%","3","b","k","&",
      "s","t","o","r","y","=">>,
    <<"?","k","e","y","w","o","r","d","s","=","&","r","e","l","a","t","e","d","_","k","e","y",
      "w","o","r","d","s","=","r","k","&","a","s","p","e","c","t","_","r","a","t","i","o",
      "=","&","a","s","p","e","c","t","R","a","t","i","o","=","1","%","3","A","1","&","s",
      "t","o","r","y","=","s">>,
    <<"?","t","o","p","i","c","=","a","&","t","o","p","i","c","=","b","&","&","s","t","o","r",
      "y","&","m","o","o","d","=","e","n","e","r","g","e","t","i","c","&","l","a","n","g",
      "u","a","g","e","=","f","r">> }

\* Values typed into the fields: empty ones, the characters a query gives a
\* meaning to, line breaks, and a string with an unpaired surrogate.
UrlEdits ==
  { <<"topic", <<>>>>, <<"topic", <<"a","&","b","=","c"," ","+","%","?","#">>>>, <<"topic", <<"x", Surrogate>> >>,
    <<"story", <<"1","\r","\n","2",";","\t">>>>, <<"keywords", <<>>>> }

UrlInit == \E q \in OpenedQueries : HomeContent(q)

UrlNext ==
  \/ \E e \in UrlEdits : handleChange(e[1], e[2])
  \/ reopen

SpecUrl == UrlInit /\ [][UrlNext]_vars

(***************************************************************************)
(* The page: edits, submits and copies of the share link                   *)
(***************************************************************************)
\* Queries the page is opened on; the second has a mood whose profile lookup
\* finds an inherited member, and the first render throws.
PageQueries ==
  { <<"?","s","t","o","r","y","=","I","t","+","l","e","a","r","n","s",".","+","A","n","+","a",
      "i","+","m","o","d","e","l","&","k","e","y","w","o","r","d","s","=","a","i","&","m",
      "o","o","d","=","c","a","l","m","&","l","a","n","g","u","a","g","e","=","x","x">>,
    <<"?","s","t","o","r","y","=","s","&","m","o","o","d","=","c","o","n","s","t","r","u","c",
      "t","o","r">> }

\* A typed story and a chosen mood.
PageEdits ==
  { <<"story", <<"D","a","t","a"," ","f","i","r","s","t","."," ","T","h","e","n"," ","w","e",
                 " ","p","r","e","d","i","c","t">>>>, <<"mood", <<"e","n","e","r","g","e","t",
                                                                  "i",
                                                                  "c">>>> }

Init == \E q \in PageQueries : HomeContent(q)

Next ==
  \/ \E e \in PageEdits : handleChange(e[1], e[2])
  \/ handleSubmit
  \/ handleCopyShareLink
  \/ \E i \in 1..MaxCopies : writeResolves(i)
  \/ \E i \in 1..MaxCopies : writeRejects(i)
  \/ timerFires
  \/ Tick

\* A timer that is due fires, and time does not stand still while one runs.
Spec == Init /\ [][Next]_vars /\ WF_vars(timerFires) /\ WF_vars(Tick)

(***************************************************************************)
(* Properties of the generator                                             *)
(***************************************************************************)
\* The latest call returned a plan.
Returned == ~result.threw

\* The beats the segmentation step of the latest call produced.
Beats == parseStoryBeats(trimStory(request.story))

Voiceovers == [i \in 1..Len(result.scenes) |-> result.scenes[i].voiceover]

IsBlank(s) == \A i \in 1..Len(s) : s[i] \in Whitespace

\* C1: for every request, generateVideoScript returns a plan with at least
\* one scene, each scene with a non-empty voiceover, duration, visuals and
\* overlay and at least one asset.
C1_EveryRequestYieldsCompleteScenes ==
  /\ ~result.threw
  /\ Len(result.scenes) >= 1
  /\ \A i \in 1..Len(result.scenes) :
       /\ result.scenes[i].voiceover # <<>>
       /\ result.scenes[i].duration # <<>>
       /\ result.scenes[i].visuals # <<>>
       /\ result.scenes[i].overlay # <<>>
       /\ Len(result.scenes[i].assets) >= 1

\* C2: generateVideoScript never throws, and a mood, aspect ratio or language
\* that is no key of its table is replaced by calm, 16:9 and "English".
C2_NeverThrowsUnknownKeysDefault ==
  /\ ~result.threw
  /\ request.mood \notin DOMAIN MOOD_PROFILES =>
       /\ result.pacing = MOOD_PROFILES[<<"c","a","l","m">>].pacing
       /\ result.audioRecommendation = MOOD_PROFILES[<<"c","a","l","m">>].audio
  /\ request.aspectRatio \notin DOMAIN ASPECT_GUIDANCE =>
       result.productionNotes[1] = ASPECT_GUIDANCE[<<"1","6",":","9">>].safeZone
  /\ request.language \notin DOMAIN LANGUAGE_LABELS => result.language = <<"E","n","g","l","i",
                                                                           "s",
                                                                           "h">>

\* C3: for a mood that is no key of the mood table, the plan's pacing, colour
\* palette and audio recommendation are those of the plan of the same request
\* with mood "calm".
C3_UnknownMoodIsCalm ==
  LET calm == generateVideoScript([request EXCEPT !.mood = <<"c","a","l","m">>])
  IN  (request.mood \notin DOMAIN MOOD_PROFILES /\ ~calm.threw) =>
        /\ ~result.threw
        /\ result.pacing = calm.pacing
        /\ result.colorPalette = calm.colorPalette
        /\ result.audioRecommendation = calm.audioRecommendation

DefaultNarrative ==
  << <<"A","r","t","i","f","i","c","i","a","l"," ","i","n","t","e","l","l","i","g","e","n","c",
       "e"," ","s","t","u","d","i","e","s"," ","p","a","t","t","e","r","n","s"," ","i","n",
       " ","d","a","t","a"," ","t","o"," ","l","e","a","r","n"," ","h","o","w"," ","t","h",
       "e"," ","w","o","r","l","d"," ","w","o","r","k","s",".">>,
     <<"B","y"," ","w","a","t","c","h","i","n","g"," ","t","h","o","u","s","a","n","d","s"," ",
       "o","f"," ","e","x","a","m","p","l","e","s",","," ","i","t"," ","r","e","c","o","g",
       "n","i","z","e","s"," ","r","e","l","a","t","i","o","n","s","h","i","p","s"," ","a",
       "n","d"," ","m","a","k","e","s"," ","p","r","e","d","i","c","t","i","o","n","s",
       ".">>,
     <<"W","i","t","h"," ","e","v","e","r","y"," ","i","t","e","r","a","t","i","o","n",","," ",
       "t","h","e"," ","s","y","s","t","e","m"," ","f","i","n","e","-","t","u","n","e","s",
       " ","i","t","s","e","l","f",","," ","i","m","p","r","o","v","i","n","g"," ","j","u",
       "s","t"," ","l","i","k","e"," ","h","u","m","a","n"," ","l","e","a","r","n","i","n",
       "g",".">> >>

\* C4: a story that is empty or all white space is segmented into the three
\* sentences of the default narrative, which are then the voiceovers of the
\* plan's 3 scenes, in order; for any other story every beat (and voiceover)
\* is a piece of the story's own text, so a default sentence appears only if
\* the story spells it.
C4_DefaultNarrativeIffBlankStory ==
  LET beats == Beats
      text == RemoveChars(request.story, {"\r"})
  IN  /\ IsBlank(request.story) =>
           /\ beats = DefaultNarrative
           /\ Returned => (Len(result.scenes) = 3 /\ Voiceovers = DefaultNarrative)
      /\ ~IsBlank(request.story) =>
           /\ \A i \in 1..Len(beats) : includes(text, beats[i])
           /\ Returned =>
                \A i \in 1..Len(result.scenes) : includes(text, result.scenes[i].voiceover)

C4_Witness ==
  /\ Returned
  /\ request.story # <<>>
  /\ IsBlank(request.story)
  /\ Len(result.scenes) = 3

\* C5: the scenes are the beats, one for one and in order: as many scenes as
\* beats, the scene at position i (0-based) has id i+1 and the beat as its
\* voiceover, and every beat is trimmed and not empty.
C5_ScenesAreTheBeats ==
  Returned =>
    LET beats == Beats
    IN  /\ Len(result.scenes) = Len(beats)
        /\ \A i \in 1..Len(beats) :
             /\ result.scenes[i].id = (i - 1) + 1
             /\ result.scenes[i].voiceover = beats[i]
             /\ beats[i] # <<>>
             /\ beats[i][1] \notin Whitespace
             /\ beats[i][Len(beats[i])] \notin Whitespace

C5_Witness ==
  /\ Returned
  /\ ~IsBlank(request.story)
  /\ Len(result.scenes) >= 2
  /\ result.scenes[2].id = 2

\* The maximal runs of characters that are not white space.
WordsIn(s) ==
  Cardinality({j \in 1..Len(s) : s[j] \notin Whitespace /\ (j = 1 \/ s[j - 1] \in Whitespace)})

\* r is wordCount / 2.7 rounded to the nearest integer: |r - w / 2.7| < 1/2.
IsNearest(r, w) == 27 * (2 * r - 1) <= 20 * w /\ 20 * w < 27 * (2 * r + 1)

\* C6: a scene's duration is an integer n followed by "s", n being
\* round(wordCount / 2.7) clamped to 4..9, wordCount the number of
\* white-space-separated words of the voiceover.
C6_DurationIsClampedRoundedWordRate ==
  Returned =>
    \A i \in 1..Len(result.scenes) :
      LET w == WordsIn(result.scenes[i].voiceover)
      IN  \E n \in 4..9 : \E r \in 0..w :
            /\ IsNearest(r, w)
            /\ n = (IF r < 4 THEN 4 ELSE IF r > 9 THEN 9 ELSE r)
            /\ result.scenes[i].duration = <<DigitChars[n + 1], "s">>

C6_Witness ==
  /\ Returned
  /\ \E i \in 1..Len(result.scenes) :
       /\ WordsIn(result.scenes[i].voiceover) >= 26
       /\ result.scenes[i].duration = <<"9","s">>

\* The caller's keywords followed by the derived ones, before de-duplication.
KeywordCandidates ==
  providedKeywords(request.keywords)
    \o extractKeywordsFromStory(request.topic \o <<"."," ">> \o trimStory(request.story))

FirstIn(ss, x) == SetMin({j \in 1..Len(ss) : ss[j] = x})

CountOf(ss, x) == Cardinality({i \in 1..Len(ss) : ss[i] = x})

\* C7: ignoring case, the keyword list holds exactly the caller's keywords
\* followed by the derived ones, each once, at the place of its first
\* occurrence; its length is at most the number of caller keywords plus 8;
\* and keywords "AI, ai, Machine Learning" give one "AI" and one "machine
\* learning".
C7_KeywordsMergedFirstOccurrenceWins ==
  Returned =>
    LET lowered == MapSeq(result.keywords, toLowerCase)
        candidates == MapSeq(KeywordCandidates, toLowerCase)
        callers == Len(providedKeywords(request.keywords))
    IN  /\ \A j \in 1..Len(candidates) : \E i \in 1..Len(lowered) : lowered[i] = candidates[j]
        /\ \A i \in 1..Len(lowered) : \E j \in 1..Len(candidates) : candidates[j] = lowered[i]
        /\ \A i \in 1..Len(lowered) : \A k \in (i + 1)..Len(lowered) :
             /\ lowered[i] # lowered[k]
             /\ FirstIn(candidates, lowered[i]) < FirstIn(candidates, lowered[k])
        /\ Len(candidates) <= callers + 8
        /\ Len(result.keywords) <= callers + 8
        /\ request.keywords = ExampleKeywords =>
             /\ CountOf(result.keywords, <<"A","I">>) = 1
             /\ CountOf(lowered, <<"a","i">>) = 1
             /\ CountOf(result.keywords, <<"m","a","c","h","i","n","e"," ","l","e","a","r","n",
                                           "i","n",
                                           "g">>) = 1
             /\ CountOf(lowered, <<"m","a","c","h","i","n","e"," ","l","e","a","r","n","i","n",
                                   "g">>) = 1

\* A derived keyword was dropped because the caller had supplied it.
C7_Witness ==
  /\ Returned
  /\ LET candidates == MapSeq(KeywordCandidates, toLowerCase)
         callers == Len(providedKeywords(request.keywords))
     IN  /\ \E j \in (callers + 1)..Len(candidates) :
               FirstIn(candidates, candidates[j]) <= callers
         /\ Len(result.keywords) < Len(candidates)

\* "ai", in either case, starts at k.
AiAt(e, k) ==
  /\ k >= 1
  /\ k + 1 <= Len(e)
  /\ e[k] \in {"a", "A"}
  /\ e[k + 1] \in {"i", "I"}

\* "ai" starts at k and is a word of its own: no letter, digit or underscore
\* directly before or after it.
AiWordAt(e, k) ==
  /\ AiAt(e, k)
  /\ (k = 1 \/ e[k - 1] \notin WordCharSet)
  /\ (k + 1 = Len(e) \/ e[k + 2] \notin WordCharSet)

\* C8 as stated: no keyword contains a lower-case "ai", and every character
\* outside an "AI" is lower-case.
C8_NoLowercaseAiAnywhere ==
  Returned =>
    \A i \in 1..Len(result.keywords) :
      LET e == result.keywords[i]
      IN  /\ ~includes(e, <<"a","i">>)
          /\ \A k \in 1..Len(e) :
               IsUpper(e[k]) => (AiAt(e, k) \/ AiAt(e, k - 1))

\* C8, amended: in every keyword, an "ai" that is a word of its own is "AI",
\* wherever it stands, and no other character is upper-case (an "ai" inside
\* a longer word stays lower-case).
C8_WholeWordAiUppercased ==
  Returned =>
    \A i \in 1..Len(result.keywords) :
      LET e == result.keywords[i]
      IN  \A k \in 1..Len(e) :
            IF AiWordAt(e, k) THEN e[k] = "A"
            ELSE IF AiWordAt(e, k - 1) THEN e[k] = "I"
            ELSE ~IsUpper(e[k])

\* A list with "AI" as a word and a lower-case "ai" inside a longer word.
C8_Witness ==
  /\ Returned
  /\ \E i \in 1..Len(result.keywords) :
       \E k \in 1..Len(result.keywords[i]) :
         AiWordAt(result.keywords[i], k) /\ result.keywords[i][k] = "A"
  /\ \E i \in 1..Len(result.keywords) : includes(result.keywords[i], <<"a","i">>)

ExpectedLabel(i, n, beat) ==
  IF i = 0 THEN <<"O","p","e","n","i","n","g"," ","H","o","o","k">>
  ELSE IF i = n - 1 THEN <<"C","l","o","s","i","n","g"," ","I","n","s","i","g","h","t">>
  ELSE IF includes(toLowerCase(beat), <<"l","e","a","r","n","s">>) \/ includes(toLowerCase(beat), <<
                                                                                                    "l",
                                                                                                    "e",
                                                                                                    "a",
                                                                                                    "r",
                                                                                                    "n",
                                                                                                    "i",
                                                                                                    "n",
                                                                                                    "g">>)
  THEN <<"L","e","a","r","n","i","n","g"," ","B","e","a","t">>
  ELSE IF includes(toLowerCase(beat), <<"p","r","e","d","i","c","t">>) \/ includes(toLowerCase(beat), <<
                                                                                                        "r",
                                                                                                        "e",
                                                                                                        "c",
                                                                                                        "o",
                                                                                                        "g",
                                                                                                        "n",
                                                                                                        "i",
                                                                                                        "z",
                                                                                                        "e">>)
  THEN <<"A","p","p","l","i","c","a","t","i","o","n"," ","B","e","a","t">>
  ELSE <<"B","e","a","t"," ">> \o <<DigitChars[i + 2]>>

Labels == [i \in 1..Len(result.scenes) |-> result.scenes[i].label]

\* C9: the label of the beat at index i of N is "Opening Hook" for i = 0,
\* else "Closing Insight" for i = N-1, else "Learning Beat" for a beat with
\* "learns" or "learning", else "Application Beat" for one with "predict" or
\* "recognize", else "Beat " and i+1; so a plan has exactly one "Opening
\* Hook" and, for N >= 2, exactly one "Closing Insight".
C9_LabelsFirstMatchWins ==
  Returned =>
    LET labels == Labels
    IN  /\ \A i \in 1..Len(labels) :
             labels[i] = ExpectedLabel(i - 1, Len(labels), result.scenes[i].voiceover)
        /\ CountOf(labels, <<"O","p","e","n","i","n","g"," ","H","o","o","k">>) = 1
        /\ Len(labels) >= 2 => CountOf(labels, <<"C","l","o","s","i","n","g"," ","I","n","s",
                                                 "i",
                                                 "g",
                                                 "h",
                                                 "t">>) = 1
        /\ Len(labels) = 1 => CountOf(labels, <<"C","l","o","s","i","n","g"," ","I","n","s","i",
                                                "g",
                                                "h",
                                                "t">>) = 0

\* A middle beat with "learns", and a last beat with "learns" too.
C9_Witness ==
  /\ Returned
  /\ Len(result.scenes) = 3
  /\ result.scenes[2].label = <<"L","e","a","r","n","i","n","g"," ","B","e","a","t">>
  /\ includes(toLowerCase(result.scenes[3].voiceover), <<"l","e","a","r","n","s">>)
  /\ result.scenes[3].label = <<"C","l","o","s","i","n","g"," ","I","n","s","i","g","h","t">>

\* The profiles the latest call resolved.
ResolvedMood == Nullish(Lookup(MOOD_PROFILES, request.mood), MOOD_PROFILES[<<"c","a","l","m">>])

ResolvedAspect == Nullish(Lookup(ASPECT_GUIDANCE, request.aspectRatio), ASPECT_GUIDANCE[<<"1",
                                                                                          "6",
                                                                                          ":",
                                                                                          "9">>])

DataVisual ==
  <<"V","i","s","u","a","l","i","z","e"," ","f","l","o","w","i","n","g"," ","d","a","t","a"," ",
    "p","o","i","n","t","s"," ","m","o","r","p","h","i","n","g"," ","i","n","t","o"," ","a",
    " ","n","e","u","r","a","l"," ","n","e","t","w","o","r","k"," ","m","e","s","h",";"," ">>
    \o ResolvedMood.value.motion \o <<" ","w","i","t","h"," ">> \o ResolvedMood.value.lighting \o <<
                                                                                                    ".">>

DashboardVisual ==
  <<"S","h","o","w"," ","p","r","e","d","i","c","t","i","v","e"," ","d","a","s","h","b","o","a",
    "r","d","s"," ","c","o","m","i","n","g"," ","t","o"," ","l","i","f","e"," ","w","i","t",
    "h"," ","c","o","n","f","i","d","e","n","t"," ","h","i","g","h","l","i","g","h","t","s",
    ";"," ">>
    \o Interp(Prop(ResolvedAspect, "framing"))

TrainingVisual ==
  <<"I","l","l","u","s","t","r","a","t","e"," ","a","n"," ","A","I"," ","t","r","a","i","n","i",
    "n","g"," ","l","o","o","p"," ","w","i","t","h"," ","l","a","y","e","r","e","d"," ","a",
    "n","i","m","a","t","i","o","n","s"," ","t","h","a","t"," ","p","r","o","g","r","e","s",
    "s","i","v","e","l","y"," ","r","e","f","i","n","e",","," ","p","a","i","r","e","d"," ",
    "w","i","t","h"," ">>
    \o ResolvedMood.value.motion \o <<".">>

ContrastVisual ==
  <<"C","o","n","t","r","a","s","t"," ","h","u","m","a","n"," ","l","e","a","r","n","i","n","g",
    " ","a","n","d"," ","m","a","c","h","i","n","e"," ","l","e","a","r","n","i","n","g"," ",
    "t","h","r","o","u","g","h"," ","m","i","r","r","o","r","e","d"," ","c","o","m","p","o",
    "s","i","t","i","o","n","s",","," ","g","e","n","t","l","y"," ","l","i","t"," ","t","o",
    " ","s","t","a","y"," ">>
    \o ResolvedMood.value.lighting \o <<".">>

GenericVisual(keyword) ==
  <<"C","r","e","a","t","e"," ","c","a","l","m",","," ","a","b","s","t","r","a","c","t"," ","i",
    "m","a","g","e","r","y"," ","a","r","o","u","n","d"," ">> \o keyword \o <<","," ","u","s",
                                                                              "i",
                                                                              "n",
                                                                              "g",
                                                                              " ">>
    \o ResolvedMood.value.colorPalette[1] \o <<" ","a","n","d"," ">>
    \o ResolvedMood.value.colorPalette[2] \o <<" ","a","c","c","e","n","t","s",".">>

ExpectedVisuals(i) ==
  LET lower == toLowerCase(result.scenes[i].voiceover)
  IN  IF includes(lower, <<"d","a","t","a">>) \/ includes(lower, <<"p","a","t","t","e","r","n",
                                                                   "s">>) THEN DataVisual
      ELSE IF includes(lower, <<"p","r","e","d","i","c","t">>) \/ includes(lower, <<"o","u","t",
                                                                                    "c",
                                                                                    "o",
                                                                                    "m",
                                                                                    "e",
                                                                                    "s">>) THEN DashboardVisual
      ELSE IF includes(lower, <<"l","e","a","r","n">>) \/ includes(lower, <<"t","r","a","i","n",
                                                                            "i",
                                                                            "n",
                                                                            "g">>) THEN TrainingVisual
      ELSE IF includes(lower, <<"e","x","p","e","r","i","e","n","c","e">>) \/ includes(lower, <<
                                                                                                "h",
                                                                                                "u",
                                                                                                "m",
                                                                                                "a",
                                                                                                "n",
                                                                                                "s">>) THEN ContrastVisual
      ELSE GenericVisual(selectKeywordForScene(result.scenes[i].voiceover, result.keywords, i - 1))

\* C10: a scene's visuals are those of the first rule its lower-cased beat
\* matches: data/patterns, then predict/outcomes (ending with the aspect
\* profile's framing), then learn/training, then experience/humans, else the
\* generic text with the scene keyword and the palette's first two colours.
\* The scenario request has 2 scenes, scene 1 "Opening Hook" with the data
\* visuals, scene 2 with the dashboard visuals and the 9:16 framing.
C10_VisualsFirstMatchWins ==
  Returned =>
    /\ \A i \in 1..Len(result.scenes) : result.scenes[i].visuals = ExpectedVisuals(i)
    /\ request = ScenarioRequest =>
         /\ Len(result.scenes) = 2
         /\ result.scenes[1].label = <<"O","p","e","n","i","n","g"," ","H","o","o","k">>
         /\ result.scenes[1].visuals
              = <<"V","i","s","u","a","l","i","z","e"," ","f","l","o","w","i","n","g"," ","d",
                  "a","t","a"," ","p","o","i","n","t","s"," ","m","o","r","p",
                  "h","i","n","g"," ","i","n","t","o"," ","a"," ","n","e","u",
                  "r","a","l"," ","n","e","t","w","o","r","k"," ","m","e","s",
                  "h",";"," ","b","o","l","d"," ","c","a","m","e","r","a"," ",
                  "s","w","e","e","p","s"," ","a","n","d"," ","q","u","i","c",
                  "k"," ","p","u","n","c","h","-","i","n","s"," ","w","i","t",
                  "h"," ","h","i","g","h"," ","c","o","n","t","r","a","s","t",
                  " ","w","i","t","h"," ","s","a","t","u","r","a","t","e","d",
                  " ","a","c","c","e","n","t","s",".">>
         /\ result.scenes[2].visuals
              = <<"S","h","o","w"," ","p","r","e","d","i","c","t","i","v","e"," ","d","a","s",
                  "h","b","o","a","r","d","s"," ","c","o","m","i","n","g"," ",
                  "t","o"," ","l","i","f","e"," ","w","i","t","h"," ","c","o",
                  "n","f","i","d","e","n","t"," ","h","i","g","h","l","i","g",
                  "h","t","s",";"," ","V","e","r","t","i","c","a","l"," ","s",
                  "t","o","r","y","t","e","l","l","i","n","g"," ","w","i","t",
                  "h"," ","s","t","a","c","k","e","d"," ","l","a","y","e","r",
                  "s"," ","a","n","d"," ","m","o","t","i","o","n"," ","f","r",
                  "o","m"," ","b","o","t","t","o","m"," ","t","o"," ","t","o",
                  "p",".">>

C10_Witness ==
  /\ Returned
  /\ request = ScenarioRequest
  /\ includes(toLowerCase(result.scenes[1].voiceover), <<"l","e","a","r","n">>)
  /\ includes(toLowerCase(result.scenes[1].voiceover), <<"d","a","t","a">>)
  /\ includes(result.scenes[2].visuals, <<"V","e","r","t","i","c","a","l"," ","s","t","o","r",
                                          "y","t","e",
                                          "l","l","i",
                                          "n","g">>)

(***************************************************************************)
(* The derived keywords                                                    *)
(***************************************************************************)
\* The text the derived keywords are counted in, lower-cased.
DerivationText == toLowerCase(request.topic \o <<"."," ">> \o trimStory(request.story))

TokenChars == LowerSet \cup DigitSet

\* The indices where a maximal run of letters and digits of t starts, and the
\* run that starts at i.
RunStarts(t) == {i \in 1..Len(t) : t[i] \in TokenChars /\ (i = 1 \/ t[i - 1] \notin TokenChars)}

RunAt(t, i) ==
  SubSeq(t, i, SetMin({j \in i..Len(t) : j = Len(t) \/ t[j + 1] \notin TokenChars}))

\* The runs of t by their start, and of those the ones that count: longer
\* than 2 and no stop word.
Runs(t) == [i \in RunStarts(t) |-> RunAt(t, i)]

Counted(runs) == {i \in DOMAIN runs : Len(runs[i]) > 2 /\ runs[i] \notin STOP_WORDS}

\* The caller supplied no keyword: the field holds separators and blanks only.
NoCallerKeywords == \A i \in 1..Len(request.keywords) : request.keywords[i] \in Whitespace \cup {",", ";"}

\* C12: when the caller supplies no keyword, the keyword list is the derived
\* list: distinct tokens (maximal runs of letters and digits, longer than 2,
\* no stop words) of the lower-cased text topic + ". " + trimmed story, in
\* descending order of their number of occurrences, ties in order of first
\* occurrence, and the first 8 of that ranking; with an empty topic and an
\* empty story it is empty while the plan has the 3 default scenes.
C12_DerivedKeywordsRankedFromTopicAndStory ==
  (Returned /\ NoCallerKeywords) =>
    LET runs == Runs(DerivationText)
        starts == Counted(runs)
        tokens == {runs[i] : i \in starts}
        count == [w \in tokens |-> Cardinality({i \in starts : runs[i] = w})]
        first == [w \in tokens |-> SetMin({i \in starts : runs[i] = w})]
        K == result.keywords
        Before(a, b) == count[a] > count[b] \/ (count[a] = count[b] /\ first[a] < first[b])
    IN  /\ \A i \in 1..Len(K) : K[i] \in tokens
        /\ \A i, j \in 1..Len(K) : i < j => Before(K[i], K[j])
        /\ Len(K) = Min2(8, Cardinality(tokens))
        /\ \A w \in tokens : (\A i \in 1..Len(K) : K[i] # w) => \A i \in 1..Len(K) : Before(K[i], w)
        /\ (request.topic = <<>> /\ trimStory(request.story) = <<>>) =>
             (K = <<>> /\ Len(result.scenes) = 3)

\* More than 8 tokens to rank, a strict step and a tie among the 8 kept, and
\* a stop word of three letters or more in the text.
C12_Witness ==
  /\ Returned
  /\ NoCallerKeywords
  /\ LET runs == Runs(DerivationText)
         starts == Counted(runs)
         tokens == {runs[i] : i \in starts}
         count == [w \in tokens |-> Cardinality({i \in starts : runs[i] = w})]
         K == result.keywords
     IN  /\ Cardinality(tokens) > 8
         /\ Len(K) = 8
         /\ count[K[1]] > count[K[2]]
         /\ count[K[7]] = count[K[8]]
         /\ \E i \in DOMAIN runs : runs[i] \in STOP_WORDS /\ Len(runs[i]) > 2

(***************************************************************************)
(* The scene keyword                                                       *)
(***************************************************************************)
\* k occurs in v, letter case aside.
OccursIn(k, v) ==
  LET lk == toLowerCase(k)
      lv == toLowerCase(v)
  IN  \E p \in 1..(Len(lv) - Len(lk) + 1) : SubSeq(lv, p, p + Len(lk) - 1) = lk

\* The keyword of the scene at position i (1-based) of the latest plan.
ExpectedKeyword(i) ==
  LET K == result.keywords
      v == result.scenes[i].voiceover
      found == {k \in 1..Len(K) : OccursIn(K[k], v)}
  IN  IF found # {} THEN K[SetMin(found)]
      ELSE IF Len(K) = 0 THEN <<"i","n","s","i","g","h","t">>
      ELSE K[((i - 1) % Len(K)) + 1]

\* C13: the last asset of every scene is "B-roll: contextual visuals
\* highlighting {keyword}.", the keyword being the first entry of the keyword
\* list that occurs in the beat, letter case aside; with no such entry the
\* entry at index i mod the list's length (i the beat's 0-based index); and
\* "insight" when the list is empty.
C13_SceneKeywordFirstMatchElseRoundRobin ==
  Returned =>
    \A i \in 1..Len(result.scenes) :
      LET assets == result.scenes[i].assets
      IN  /\ Len(assets) >= 1
          /\ assets[Len(assets)]
               = <<"B","-","r","o","l","l",":"," ","c","o","n","t","e","x","t","u","a","l"," ",
                   "v","i","s","u","a","l","s"," ","h","i","g","h","l","i","g",
                   "h","t","i","n","g"," ">> \o ExpectedKeyword(i) \o <<".">>

\* A plan with more beats than keywords: a beat without any keyword at an
\* index past the list's length, a beat holding both keywords with the
\* second one first, and a beat holding a keyword in another letter case.
C13_Witness ==
  /\ Returned
  /\ request = FallbackRequest
  /\ result.keywords = << <<"q","q">>, <<"A","I">> >>
  /\ Len(result.scenes) = 5
  /\ \A k \in 1..2 : ~OccursIn(result.keywords[k], result.scenes[3].voiceover)
  /\ result.scenes[3].assets = << <<"B","-","r","o","l","l",":"," ","c","o","n","t","e","x","t",
                                    "u","a","l"," ","v","i",
                                    "s","u","a","l","s"," ",
                                    "h","i","g","h","l","i",
                                    "g","h","t","i","n","g",
                                    " ","q","q",".">> >>
  /\ result.scenes[4].assets = << <<"B","-","r","o","l","l",":"," ","c","o","n","t","e","x","t",
                                    "u","a","l"," ","v","i",
                                    "s","u","a","l","s"," ",
                                    "h","i","g","h","l","i",
                                    "g","h","t","i","n","g",
                                    " ","q","q",".">> >>
  /\ result.scenes[5].assets = << <<"B","-","r","o","l","l",":"," ","c","o","n","t","e","x","t",
                                    "u","a","l"," ","v","i",
                                    "s","u","a","l","s"," ",
                                    "h","i","g","h","l","i",
                                    "g","h","t","i","n","g",
                                    " ","A","I",".">> >>

(***************************************************************************)
(* The overlay                                                             *)
(***************************************************************************)
\* The words of the beat an overlay keeps: the beat without its characters
\* that are neither letters, digits nor white space, split at white space,
\* the words longer than 2, the first 6 of them.
KeptWords(beat) ==
  LET words == SelectSeq(split(SelectSeq(beat, LAMBDA c : c \in AlnumOrSpace), Whitespace),
                         LAMBDA w : Len(w) > 2)
  IN  SubSeq(words, 1, Min2(6, Len(words)))

FirstUpper(s) == IF s = <<>> THEN s ELSE <<ToUpperChar(s[1])>> \o Tail(s)

\* C14: a scene's overlay is the kept words of its beat joined by single
\* blanks, first character uppercased and every other character as the beat
\* has it; with no kept word it is "Key idea: " and the capitalized scene
\* keyword.
C14_OverlayKeepsTheBeatsWords ==
  Returned =>
    \A i \in 1..Len(result.scenes) :
      LET kept == KeptWords(result.scenes[i].voiceover)
      IN  result.scenes[i].overlay
            = IF kept # <<>> THEN FirstUpper(join(kept, <<" ">>))
              ELSE <<"K","e","y"," ","i","d","e","a",":"," ">> \o FirstUpper(ExpectedKeyword(i))

(***************************************************************************)
(* The share link                                                          *)
(***************************************************************************)
WellFormed(f) == \A k \in DOMAIN f : \A i \in 1..Len(f[k]) : f[k][i] # Surrogate

\* The value of the first parameter called name in the query the page was
\* opened on, if there is one.
OpenedHas(name) == \E i \in 1..Len(parseSearch(opened)) : parseSearch(opened)[i][1] = name

OpenedFirst(name) ==
  LET P == parseSearch(opened)
  IN  P[SetMin({i \in 1..Len(P) : P[i][1] = name})][2]

\* Decoding the opened query: each field is the value of its parameter, of
\* the first alias present for aspectRatio (aspect_ratio, then aspectRatio)
\* and keywords (keywords, then related_keywords), else the built-in default.
DecodesOpenedQuery ==
  LET f == loadFormFromParams(parseSearch(opened))
      Field(names, default) ==
        IF OpenedHas(names[1]) THEN OpenedFirst(names[1])
        ELSE IF Len(names) = 2 /\ OpenedHas(names[2]) THEN OpenedFirst(names[2])
        ELSE default
  IN  /\ request = f
      /\ f.topic = Field(<< <<"t","o","p","i","c">> >>, DEFAULT_FORM.topic)
      /\ f.story = Field(<< <<"s","t","o","r","y">> >>, DEFAULT_FORM.story)
      /\ f.aspectRatio = Field(<< <<"a","s","p","e","c","t","_","r","a","t","i","o">>, <<"a",
                                                                                         "s",
                                                                                         "p",
                                                                                         "e",
                                                                                         "c",
                                                                                         "t",
                                                                                         "R",
                                                                                         "a",
                                                                                         "t",
                                                                                         "i",
                                                                                         "o">> >>, DEFAULT_FORM.aspectRatio)
      /\ f.mood = Field(<< <<"m","o","o","d">> >>, DEFAULT_FORM.mood)
      /\ f.keywords = Field(<< <<"k","e","y","w","o","r","d","s">>, <<"r","e","l","a","t","e",
                                                                      "d",
                                                                      "_",
                                                                      "k",
                                                                      "e",
                                                                      "y",
                                                                      "w",
                                                                      "o",
                                                                      "r",
                                                                      "d",
                                                                      "s">> >>, DEFAULT_FORM.keywords)
      /\ f.language = Field(<< <<"l","a","n","g","u","a","g","e">> >>, DEFAULT_FORM.language)

\* C11 as stated: the form decoded from the encoding of the form is the form,
\* whatever strings its fields hold.
C11_RoundTripOfEveryRequest ==
  /\ loadFormFromParams(buildSearchParams(form)) = form
  /\ Mounted => loadFormFromParams(parseSearch(search)) = form
  /\ DecodesOpenedQuery

\* C11, amended: for a form whose fields hold no unpaired surrogate, the form
\* decoded from its encoding is the form, empty fields included, both on the
\* parameters object and through the query string of the share link; and
\* the opened query is decoded by first alias, else default.
C11_RoundTripOfWellFormedRequest ==
  /\ WellFormed(form) =>
       /\ loadFormFromParams(buildSearchParams(form)) = form
       /\ Mounted => loadFormFromParams(parseSearch(search)) = form
  /\ DecodesOpenedQuery

\* A page opened on a query with both aliases of both fields, the second
\* alias first, whose form now has an empty topic and keywords and a story
\* with line breaks, and whose share link decodes to that form.
C11_Witness ==
  /\ Mounted
  /\ OpenedHas(<<"a","s","p","e","c","t","_","r","a","t","i","o">>) /\ OpenedHas(<<"a","s","p",
                                                                                   "e",
                                                                                   "c",
                                                                                   "t",
                                                                                   "R",
                                                                                   "a",
                                                                                   "t",
                                                                                   "i",
                                                                                   "o">>)
  /\ OpenedHas(<<"k","e","y","w","o","r","d","s">>) /\ OpenedHas(<<"r","e","l","a","t","e","d",
                                                                   "_",
                                                                   "k",
                                                                   "e",
                                                                   "y",
                                                                   "w",
                                                                   "o",
                                                                   "r",
                                                                   "d",
                                                                   "s">>)
  /\ request.aspectRatio = <<"1",":","1">>
  /\ request.keywords = <<"k"," ","w">>
  /\ request.topic = DEFAULT_FORM.topic
  /\ form.topic = <<>>
  /\ form.keywords = <<>>
  /\ form.story = <<"1","\r","\n","2",";","\t">>
  /\ search # opened
  /\ loadFormFromParams(parseSearch(search)) = form

(***************************************************************************)
(* Properties of the page                                                  *)
(***************************************************************************)
\* A step in which a pending clipboard write settles
WriteFails == \E i \in DOMAIN writes : writeRejects(i)

WriteSucceeds == \E i \in DOMAIN writes : writeResolves(i)

\* C15: a clipboard write that fails leaves the displayed plan, the form and
\* the copy indicator as they are; one that succeeds puts the indicator on
\* "copied" with a timer running, and an indicator on "copied" always has a
\* timer running and does come back to "idle"; and no step of a copy (the
\* click, the write settling either way, the timer firing, time passing)
\* changes the displayed plan or the form, whatever edits and submits happen
\* in between.
C15_CopyOutcomesLeaveThePlan ==
  /\ [][WriteFails => UNCHANGED <<script, form, copyState>>]_vars
  /\ [][WriteSucceeds => copyState' = "copied" /\ timers' # <<>>]_vars
  /\ [](copyState = "copied" => timers # <<>>)
  /\ (copyState = "copied") ~> (copyState = "idle")
  /\ [][(handleCopyShareLink \/ WriteFails \/ WriteSucceeds \/ timerFires \/ Tick)
          => UNCHANGED <<script, form>>]_vars

\* A second copy under way while the indicator shows "copied" after an edit
\* and a submit: one link on the clipboard, the next write pending, the first
\* timer half way, and the plan that of the submitted form.
C15_Witness ==
  /\ Mounted
  /\ copyState = "copied"
  /\ Len(writes) = 1
  /\ timers = <<TickMillis>>
  /\ clipboard # <<>>
  /\ clipboard # writes[1]
  /\ request # loadFormFromParams(parseSearch(opened))
  /\ script = generateVideoScript(request)

\* C16: on a rendered page the displayed plan is generateVideoScript of the
\* form as it was at the last submit, or at load when there was none; the
\* query of the share link is the encoding of the current form and decodes
\* to it; a step that changes the form changes the share link and not the
\* plan; and the plan changes only in a submit, which makes it the whole plan
\* of the current form.
C16_PlanIsOfTheSubmittedForm ==
  /\ [](Mounted => /\ script = generateVideoScript(request)
                   /\ search = shareQuery(form)
                   /\ loadFormFromParams(parseSearch(search)) = form)
  /\ [][form' # form => search' # search /\ script' = script]_vars
  /\ [][script' # script => handleSubmit]_vars
  /\ [][handleSubmit => script' = generateVideoScript(form) /\ form' = form]_vars

\* After an edit, a submit and another edit: the plan is that of the
\* submitted form, which is neither the loaded form nor the current one, and
\* the share link is that of the current form.
C16_Witness ==
  /\ Mounted
  /\ request # loadFormFromParams(parseSearch(opened))
  /\ form # request
  /\ script = generateVideoScript(request)
  /\ script # generateVideoScript(form)
  /\ search = shareQuery(form)
  /\ search # shareQuery(request)
  /\ writes = <<>> /\ timers = <<>>

====
